---- MODULE Spec2Model ----
(***************************************************************************)
(* Docrobot EDI gateway: ingestion of upstream documents into the          *)
(* EdiDocument table, the SendQueue delivery state machine with retry and  *)
(* backoff, the manual retry/send API, and the retention job; the wire     *)
(* codec (XmlTemplate.render and the default encoders of xml_builder) with *)
(* the template settings pages; and DocrobotClient._get with its token     *)
(* cache and retry loop.                                                   *)
(*                                                                         *)
(* Time is counted in minutes.  Handlers run one at a time (a poll cycle   *)
(* or one web request); the sink network call of process_document is a     *)
(* step of its own, so the state in which a delivery is in flight is       *)
(* visible.                                                                *)
(***************************************************************************)
EXTENDS Integers, Sequences, FiniteSets, TLC

\* ---------------------------------------------------------------- bounds
NumDocs          == 1     \* distinct upstream document ids
MaxFetch         == 2     \* items one fetch returns (an item may repeat)
MaxPk            == 2     \* rows ever inserted into the EdiDocument table
MaxTime          == 1500  \* the clock stops advancing here
RetryHorizon     == 4     \* retry deadlines later than this are not waited for
MaxExtraAttempts == 1     \* failures counted beyond the retry limit
MaxDeliveries    == 2     \* 2xx answers the sink gives per document id
MaxCleanupDays   == 1     \* the largest --days the retention job is run with
ConcRetryLimit   == 1     \* ONEC_MAX_RETRIES where the workers overlap
MaxQueue         == 22    \* entries in the queue when the slice is exercised
NumRenderDocs     == 1     \* documents stored when renderings are followed
MaxFailedItems   == 1     \* item requests of one fetch that raise
MaxPositions     == 2     \* positions of one document content
DrainRetryLimit  == 2     \* ONEC_MAX_RETRIES of the run in which the queue is drained
MaxRetryLimit    == 7     \* the largest ONEC_MAX_RETRIES a deployment sets

\* ------------------------------------------------------ program constants
ONEC_MAX_RETRIES == 5
BACKOFF_CAP      == 60
QUEUE_SLICE      == 20
NULL             == -1          \* a null DateTimeField / PositiveIntegerField
MINUTES_PER_DAY  == 24 * 60     \* timedelta(days=1) in minutes

STATUS_PENDING == "pending"
STATUS_SENDING == "sending"
STATUS_SENT    == "sent"
STATUS_ERROR   == "error"
STATUS_FAILED  == "failed"
STATUSES == {STATUS_PENDING, STATUS_SENDING, STATUS_SENT, STATUS_ERROR, STATUS_FAILED}

NoId == 0                       \* the empty string '' as a document id
Ids  == 1..NumDocs

Min(a, b) == IF a <= b THEN a ELSE b

\* ---------------------------------------------------------- item content
\* A JSON value as json.loads returns it, with its Python type.
Obj(r) == [t |-> "dict", v |-> r]
Arr(s) == [t |-> "list", v |-> s]
Str(s) == [t |-> "str",  v |-> s]
Num(n) == [t |-> "int",  v |-> n]
EmptyDict == Obj([k \in {} |-> 0])

isinstance(j, type) == j.t = type

\* d.get(k, default) on a dict
dict_get(d, k, default) == IF k \in DOMAIN d.v THEN d.v[k] ELSE default

\* bool(j): '', 0, {} and [] are false
Truthy(j) ==
    CASE j.t = "str"  -> j.v # ""
      [] j.t = "int"  -> j.v # 0
      [] j.t = "dict" -> DOMAIN j.v # {}
      [] j.t = "list" -> j.v # <<>>

\* str(j) of a text or a number
py_str(j) ==
    CASE j.t = "str" -> j.v
      [] j.t = "int" -> ToString(j.v)

\* the Python value of a text or a number, as the result dict carries it
py_value(j) == j.v

\* The 'content' field of an item: '' (or no field), text that is not
\* base64, or the base64 of a text that is or is not JSON.
json_text(j) == [kind |-> "json", value |-> j]
NotJson      == [kind |-> "text", value |-> Str("<xml/>")]
b64encode(text) == [kind |-> "base64", text |-> text]
NotBase64       == [kind |-> "str", text |-> NotJson]
EmptyContent    == [kind |-> "", text |-> NotJson]

\* an exception leaving a call
Raised(exc) == [raised |-> exc]
IsRaised(x) == "raised" \in DOMAIN x

\* json.loads(base64.b64decode(content_b64).decode('utf-8'))
json_loads_b64decode(content_b64) ==
    IF content_b64.kind = "base64" /\ content_b64.text.kind = "json"
    THEN content_b64.text.value
    ELSE Raised("ValueError")

\* dict.get(key) with '' / None read as NoId
Get(d, k) == IF k \in DOMAIN d THEN d[k] ELSE NoId

\* faulty variant: the quantity read under the key QUANTITY
Position_ReadsQuantityKey(p) ==
    LET char == IF Truthy(dict_get(p, "CHARACTERISTIC", EmptyDict))
                THEN dict_get(p, "CHARACTERISTIC", EmptyDict) ELSE EmptyDict
    IN  [ean            |-> py_str(dict_get(p, "PRODUCT", Str(""))),
         itemCode       |-> py_str(dict_get(p, "PRODUCT", Str(""))),
         itemName       |-> IF isinstance(char, "dict")
                            THEN py_value(dict_get(char, "DESCRIPTION", Str(""))) ELSE "",
         quantity       |-> py_value(dict_get(p, "QUANTITY", Num(0))),
         unitPrice      |-> py_value(dict_get(p, "ORDERPRICE",
                                              dict_get(p, "PRICEWITHVAT", Num(0)))),
         vat            |-> py_value(dict_get(p, "VAT", Num(0))),
         amount         |-> py_value(dict_get(p, "AMOUNT", Num(0))),
         amountWithVat  |-> py_value(dict_get(p, "AMOUNTWITHVAT", Num(0))),
         unit           |-> py_value(dict_get(p, "ORDERUNIT", Str("sht"))),
         positionNumber |-> py_value(dict_get(p, "POSITIONNUMBER", Num(0)))]

\* normalize_document, the positions loop: one dict per element of POSITION
Position(p) ==
    LET char == IF Truthy(dict_get(p, "CHARACTERISTIC", EmptyDict))
                THEN dict_get(p, "CHARACTERISTIC", EmptyDict) ELSE EmptyDict
    IN  [ean            |-> py_str(dict_get(p, "PRODUCT", Str(""))),
         itemCode       |-> py_str(dict_get(p, "PRODUCT", Str(""))),
         itemName       |-> IF isinstance(char, "dict")
                            THEN py_value(dict_get(char, "DESCRIPTION", Str(""))) ELSE "",
         quantity       |-> py_value(dict_get(p, "ORDEREDQUANTITY", Num(0))),
         unitPrice      |-> py_value(dict_get(p, "ORDERPRICE",
                                              dict_get(p, "PRICEWITHVAT", Num(0)))),
         vat            |-> py_value(dict_get(p, "VAT", Num(0))),
         amount         |-> py_value(dict_get(p, "AMOUNT", Num(0))),
         amountWithVat  |-> py_value(dict_get(p, "AMOUNTWITHVAT", Num(0))),
         unit           |-> py_value(dict_get(p, "ORDERUNIT", Str("sht"))),
         positionNumber |-> py_value(dict_get(p, "POSITIONNUMBER", Num(0)))]

\* head.get(key, {}) or {} if isinstance(head, dict) else {}
InfoOf(head, key) ==
    IF isinstance(head, "dict") /\ Truthy(dict_get(head, key, EmptyDict))
    THEN dict_get(head, key, EmptyDict) ELSE EmptyDict

\* info.get(full, info.get(short, ''))
NameOf(info, full, short) == py_value(dict_get(info, full, dict_get(info, short, Str(""))))

\* `name = value` followed by statements F that read name: the value is
\* computed once.
Bind(value, F(_)) == CHOOSE result \in {F(x) : x \in {value}} : TRUE

\* DocrobotClient.normalize_document(raw, doc_type).  The Cyrillic keys of
\* the info blocks and the default unit are written in Latin letters.  A
\* .get on a value that is not a dict raises AttributeError.  With no
\* content, `if content_b64:` is skipped, content_data stays {} and every
\* .get of lines 216-264 gives its default: the first record below.
normalize_document(raw, doc_type) ==
    LET doc_id == IF Get(raw, "documentId") # NoId
                  THEN Get(raw, "documentId") ELSE Get(raw, "id")
        content_b64 == IF "content" \in DOMAIN raw THEN raw.content ELSE EmptyContent
        content_data == IF content_b64 # EmptyContent
                           /\ ~IsRaised(json_loads_b64decode(content_b64))
                        THEN json_loads_b64decode(content_b64) ELSE EmptyDict
        result(doc_body, head, positions_list, supplier_info, buyer_info, delivery_info) ==
            LET body_str(key, default) ==
                    IF isinstance(doc_body, "dict")
                    THEN py_str(dict_get(doc_body, key, Str(default))) ELSE default
                body_num(key) ==
                    IF isinstance(doc_body, "dict")
                    THEN py_value(dict_get(doc_body, key, Num(0))) ELSE 0
            IN  IF \/ \E i \in 1..Len(positions_list) : ~isinstance(positions_list[i], "dict")
                   \/ \E info \in {supplier_info, buyer_info, delivery_info} :
                         ~isinstance(info, "dict")
                THEN Raised("AttributeError")
                ELSE
                [docrobotId |-> doc_id,
                 docType |-> doc_type,
                 number |-> body_str("NUMBER", ""),
                 date |-> body_str("DATE", ""),
                 deliveryDate |-> body_str("DELIVERYDATE", ""),
                 shipmentDate |-> body_str("SHIPMENTDATE", ""),
                 currency |-> body_str("CURRENCY", "KZT"),
                 supplierGln |-> IF isinstance(head, "dict")
                                 THEN py_str(dict_get(head, "SUPPLIER", Str(""))) ELSE "",
                 buyerGln |-> IF isinstance(head, "dict")
                              THEN py_str(dict_get(head, "BUYER", Str(""))) ELSE "",
                 supplierName |-> NameOf(supplier_info, "polnoeNazvanie", "kratkoeNazvanie"),
                 buyerName |-> NameOf(buyer_info, "polnoeNazvanie", "kratkoeNazvanie"),
                 deliveryAddress |-> py_value(dict_get(delivery_info, "Adres", Str(""))),
                 totalAmount |-> body_num("AMOUNT"),
                 totalVat |-> body_num("VATAMOUNT"),
                 totalWithVat |-> body_num("AMOUNTWITHVAT"),
                 positions |-> [i \in 1..Len(positions_list) |-> Position(positions_list[i])],
                 raw |-> raw]
        from_head(doc_body, head) ==
            LET positions_raw == IF isinstance(head, "dict")
                                 THEN dict_get(head, "POSITION", Arr(<<>>)) ELSE Arr(<<>>)
                blocks(info) ==
                    result(doc_body, head,
                           IF isinstance(positions_raw, "list") THEN positions_raw.v ELSE <<>>,
                           info[1], info[2], info[3])
            IN  Bind(<<InfoOf(head, "SUPPLIER_INFO"), InfoOf(head, "BUYER_INFO"),
                       InfoOf(head, "DELIVERYPLACE_INFO")>>, blocks)
        from_body(doc_body) ==
            LET with_head(head) == from_head(doc_body, head)
            IN  Bind(IF isinstance(doc_body, "dict")
                     THEN dict_get(doc_body, "HEAD", EmptyDict) ELSE EmptyDict, with_head)
        from_content(data) ==
            IF ~isinstance(data, "dict") THEN Raised("AttributeError")
            ELSE Bind(dict_get(data, doc_type, data), from_body)
    IN  IF content_b64 = EmptyContent
        THEN [docrobotId |-> doc_id, docType |-> doc_type,
              number |-> "", date |-> "", deliveryDate |-> "", shipmentDate |-> "",
              currency |-> "KZT", supplierGln |-> "", buyerGln |-> "",
              supplierName |-> "", buyerName |-> "", deliveryAddress |-> "",
              totalAmount |-> 0, totalVat |-> 0, totalWithVat |-> 0,
              positions |-> <<>>, raw |-> raw]
        ELSE Bind(content_data, from_content)

\* ------------------------------------------------------------- upstream
\* The item envelopes the exchange serves: documentId plus the flow id.
UpstreamItems == {[documentId |-> i, docflowId |-> i] : i \in Ids}

\* What a webhook body can be: an envelope keyed by documentId, one keyed by
\* id, or a body with no identifier at all.
WebhookBodies ==
    UpstreamItems \cup {[id |-> i] : i \in Ids} \cup {[content |-> EmptyContent]}


\* The lists a fetch can return: the upstream redelivers, so an item may
\* be missing and may appear more than once.
FetchLists == UNION {[1..n -> UpstreamItems] : n \in 0..MaxFetch}

\* What edi/poll_docrobot.py receives from its connector: records read by
\* the keys docrobotId and docflowId, either of which may be empty.
DocumentsV3 ==
    {[docrobotId |-> i, docflowId |-> f, docType |-> "ORDER"] :
        i \in Ids \cup {NoId}, f \in Ids \cup {NoId}}
FetchListsV3 == UNION {[1..n -> DocumentsV3] : n \in 0..MaxFetch}

\* The documents renderings are tried on: the one an envelope with no
\* content normalizes to (no lines, zero totals), and an order with a
\* number, a date and one line of five units.
MinimalDocument == normalize_document([documentId |-> 1, docflowId |-> 1], "ORDER")
OrderedDocument ==
    [MinimalDocument EXCEPT
        !.number = "123", !.date = "2026-02-20",
        !.positions = <<[ean |-> "111", itemCode |-> "111", itemName |-> "",
                         quantity |-> 5, unitPrice |-> 0, vat |-> 0,
                         amount |-> 0, amountWithVat |-> 0]>>]
RenderDocuments == {MinimalDocument, OrderedDocument}

VARIABLES
    docs,        \* EdiDocument table: set of rows
    queue,       \* SendQueue table: set of rows
    doc_seq,     \* last EdiDocument pk handed out
    now,         \* timezone.now(), minutes
    poll_pc,     \* where the poll command is in its cycle
    batch,       \* the entries a delivery phase still has to process
    flight,      \* per worker: the delivery whose sink call is outstanding
    cfg_max_retries, \* cfg.ONEC_MAX_RETRIES of the deployment
    overlap,     \* whether the web process runs while the poller is mid-cycle
    thread,      \* the background thread of api_poll_now, when it runs stepwise
    delivered,   \* per document id: 2xx answers the sink has given
    failures,    \* per document pk: delivery attempts that failed
    templates,   \* XmlTemplate table: set of rows
    client,      \* the DocrobotClient of a fetch: its token and its _get call
    fetch,       \* a get_incoming_documents call: where it stands, what it holds
    once,        \* options['once'] of the poll command
    telegram,    \* the Telegram bot: whether it is configured, what the last delivery posted
    last         \* the last handler that ran, and the offered ids it found stored

vars == <<docs, queue, doc_seq, now, poll_pc, batch, flight, cfg_max_retries,
          overlap, thread, delivered, failures, templates, client, fetch, once,
          telegram, last>>

Workers == {"poll", "web"}

\* ----------------------------------------------------------- wire codec
\* Texts are strings, '' is "".  The values of a document dict are texts
\* except under the keys below, whose values are numbers.
NumberKeys ==
    {"totalAmount", "totalVat", "totalWithVat", "confirmationStatus",
     "quantity", "unitPrice", "vat", "amount", "amountWithVat", "positionNumber",
     "documentId", "docflowId", "docrobotId", "id", "content"}

\* str(v) of the value stored under key k
str(k, v) == IF k \in NumberKeys THEN ToString(v) ELSE v

\* str(d.get(k, default))
get_str(d, k, default) == IF k \in DOMAIN d THEN str(k, d[k]) ELSE default

\* d.get('positions', [])
get_positions(d) == IF "positions" \in DOMAIN d THEN d.positions ELSE <<>>

\* str(date.today()) at minute t
str_today(t) == "day" \o ToString(t \div MINUTES_PER_DAY)

\* etree.SubElement(parent, tag).text = text, serialized
Element(tag, text) == "<" \o tag \o ">" \o text \o "</" \o tag \o ">"

\* xml_builder.py _root: the children every default document starts with
_root(msg_type, doc_id, supplier_gln, buyer_gln, doc_date, t) ==
    Element("DocumentType", msg_type)
    \o Element("DocumentId", doc_id)
    \o Element("DocumentDate", IF doc_date # "" THEN doc_date ELSE str_today(t))
    \o Element("Parties", Element("Supplier", Element("GLN", supplier_gln))
                          \o Element("Buyer", Element("GLN", buyer_gln)))

Line(i, p) ==
    Element("Line",
        Element("LineNumber", ToString(i))
        \o Element("EAN", get_str(p, "ean", ""))
        \o Element("ItemCode", get_str(p, "itemCode", ""))
        \o Element("ItemName", get_str(p, "itemName", ""))
        \o Element("Quantity", get_str(p, "quantity", "0"))
        \o Element("UnitPrice", get_str(p, "unitPrice", "0"))
        \o Element("VAT", get_str(p, "vat", "0"))
        \o Element("Amount", get_str(p, "amount", "0"))
        \o Element("AmountWithVAT", get_str(p, "amountWithVat", "0")))

RECURSIVE LinesFrom(_, _)
LinesFrom(i, positions) ==
    IF i > Len(positions) THEN ""
    ELSE Line(i, positions[i]) \o LinesFrom(i + 1, positions)

\* xml_builder.py _positions
_positions(positions) == Element("Lines", LinesFrom(1, positions))

\* d -> the root every default encoder builds first
RootOf(msg_type, d, t) ==
    _root(msg_type, get_str(d, "number", ""), get_str(d, "supplierGln", ""),
          get_str(d, "buyerGln", ""), get_str(d, "date", ""), t)

\* etree.tostring(root, xml_declaration=True, encoding='UTF-8')
tostring(children) == "<?xml version='1.0' encoding='UTF-8'?>" \o Element("Document", children)

_default_order(d, t) ==
    tostring(RootOf("ORDER", d, t)
        \o Element("DeliveryDate", get_str(d, "deliveryDate", ""))
        \o Element("DeliveryPlace", get_str(d, "deliveryPlace", ""))
        \o Element("Currency", get_str(d, "currency", "KZT"))
        \o _positions(get_positions(d)))

_default_ordrsp(d, t) ==
    tostring(RootOf("ORDRSP", d, t)
        \o Element("OrderNumber", get_str(d, "orderNumber", ""))
        \o Element("ConfirmationStatus", get_str(d, "confirmationStatus", "29"))
        \o _positions(get_positions(d)))

_default_desadv(d, t) ==
    tostring(RootOf("DESADV", d, t)
        \o Element("OrderNumber", get_str(d, "orderNumber", ""))
        \o Element("ShipmentDate", get_str(d, "shipmentDate", ""))
        \o Element("TransportDocNumber", get_str(d, "transportDoc", ""))
        \o _positions(get_positions(d)))

_default_invoice(d, t) ==
    tostring(RootOf("INVOICE", d, t)
        \o Element("OrderNumber", get_str(d, "orderNumber", ""))
        \o Element("TotalAmount", get_str(d, "totalAmount", "0"))
        \o Element("TotalVAT", get_str(d, "totalVat", "0"))
        \o Element("TotalWithVAT", get_str(d, "totalWithVat", "0"))
        \o Element("Currency", get_str(d, "currency", "KZT"))
        \o _positions(get_positions(d)))

_default_pricat(d, t) ==
    tostring(RootOf("PRICAT", d, t)
        \o Element("ValidFrom", get_str(d, "validFrom", ""))
        \o Element("ValidTo", get_str(d, "validTo", ""))
        \o Element("Currency", get_str(d, "currency", "KZT"))
        \o _positions(get_positions(d)))

\* the keys of _DEFAULT_BUILDERS
DOC_TYPES == {"ORDER", "ORDRSP", "DESADV", "INVOICE", "PRICAT"}

\* _DEFAULT_BUILDERS[doc_type](d)
_DEFAULT_BUILDERS(doc_type, d, t) ==
    CASE doc_type = "ORDER"   -> _default_order(d, t)
      [] doc_type = "ORDRSP"  -> _default_ordrsp(d, t)
      [] doc_type = "DESADV"  -> _default_desadv(d, t)
      [] doc_type = "INVOICE" -> _default_invoice(d, t)
      [] doc_type = "PRICAT"  -> _default_pricat(d, t)

\* json.dumps of a document dict, its positions and its values.  The keys
\* are written in the order the dict holds them, which is KeyOrder.
KeyOrder ==
    <<"docrobotId", "docflowId", "documentId", "id", "content", "docType",
      "number", "date", "deliveryDate", "shipmentDate", "currency",
      "supplierGln", "buyerGln", "supplierName", "buyerName",
      "deliveryAddress", "orderNumber",
      "totalAmount", "totalVat", "totalWithVat", "positions",
      "ean", "itemCode", "itemName", "quantity", "unitPrice", "vat",
      "amount", "amountWithVat", "unit", "positionNumber", "raw">>

RECURSIVE json_dumps(_)
RECURSIVE json_list(_, _)
RECURSIVE json_members(_, _, _)

json_value(k, v) ==
    IF k = "positions" THEN "[" \o json_list(v, 1) \o "]"
    ELSE IF k = "raw" THEN json_dumps(v)
    ELSE IF k \in NumberKeys THEN ToString(v)
    ELSE "\"" \o v \o "\""

json_members(d, keys, sep) ==
    IF keys = <<>> THEN ""
    ELSE IF Head(keys) \notin DOMAIN d THEN json_members(d, Tail(keys), sep)
    ELSE sep \o "\"" \o Head(keys) \o "\": " \o json_value(Head(keys), d[Head(keys)])
         \o json_members(d, Tail(keys), ", ")

json_list(l, i) ==
    IF i > Len(l) THEN ""
    ELSE (IF i > 1 THEN ", " ELSE "") \o json_dumps(l[i]) \o json_list(l, i + 1)

json_dumps(d) == "{" \o json_members(d, KeyOrder, "") \o "}"

\* str.replace(old, new) on a template: a template is the sequence of its
\* pieces, a placeholder being a piece of its own.
RECURSIVE replace(_, _, _)
replace(tpl, old, new) ==
    IF tpl = <<>> THEN <<>>
    ELSE <<IF Head(tpl) = old THEN new ELSE Head(tpl)>> \o replace(Tail(tpl), old, new)

RECURSIVE Join(_, _)
Join(pieces, sep) ==
    IF pieces = <<>> THEN ""
    ELSE Head(pieces) \o (IF Len(pieces) > 1 THEN sep ELSE "") \o Join(Tail(pieces), sep)

\* XmlTemplate.render, the position block: one rendered line per position
RenderLine(position_tpl, i, p) ==
    LET l1 == replace(position_tpl, "{{line}}", ToString(i))
        l2 == replace(l1, "{{ean}}", get_str(p, "ean", ""))
        l3 == replace(l2, "{{item_code}}", get_str(p, "itemCode", ""))
        l4 == replace(l3, "{{item_name}}", get_str(p, "itemName", ""))
        l5 == replace(l4, "{{quantity}}", get_str(p, "quantity", "0"))
        l6 == replace(l5, "{{unit_price}}", get_str(p, "unitPrice", "0"))
        l7 == replace(l6, "{{vat}}", get_str(p, "vat", "0"))
        l8 == replace(l7, "{{amount}}", get_str(p, "amount", "0"))
        l9 == replace(l8, "{{amount_with_vat}}", get_str(p, "amountWithVat", "0"))
    IN  Join(l9, "")

PositionsXml(position_tpl, positions) ==
    IF position_tpl = <<>> THEN ""
    ELSE Join([i \in 1..Len(positions) |-> RenderLine(position_tpl, i, positions[i])], "\n")

\* XmlTemplate.render
render(tpl, doc_data) ==
    LET r1  == replace(tpl.body_tpl, "{{number}}", get_str(doc_data, "number", ""))
        r2  == replace(r1, "{{date}}", get_str(doc_data, "date", ""))
        r3  == replace(r2, "{{delivery_date}}", get_str(doc_data, "deliveryDate", ""))
        r4  == replace(r3, "{{supplier_gln}}", get_str(doc_data, "supplierGln", ""))
        r5  == replace(r4, "{{supplier_name}}", get_str(doc_data, "supplierName", ""))
        r6  == replace(r5, "{{buyer_gln}}", get_str(doc_data, "buyerGln", ""))
        r7  == replace(r6, "{{buyer_name}}", get_str(doc_data, "buyerName", ""))
        r8  == replace(r7, "{{currency}}", get_str(doc_data, "currency", "KZT"))
        r9  == replace(r8, "{{order_number}}", get_str(doc_data, "orderNumber", ""))
        r10 == replace(r9, "{{shipment_date}}", get_str(doc_data, "shipmentDate", ""))
        r11 == replace(r10, "{{total_amount}}", get_str(doc_data, "totalAmount", "0"))
        r12 == replace(r11, "{{total_vat}}", get_str(doc_data, "totalVat", "0"))
        r13 == replace(r12, "{{total_with_vat}}", get_str(doc_data, "totalWithVat", "0"))
        r14 == replace(r13, "{{positions}}",
                       PositionsXml(tpl.position_tpl, get_positions(doc_data)))
        r15 == replace(r14, "{{positions_json}}",
                       "[" \o json_list(get_positions(doc_data), 1) \o "]")
        r16 == replace(r15, "{{raw_json}}", json_dumps(doc_data))
    IN  Join(r16, "")

\* XmlTemplate.objects.filter(doc_type=doc_type, is_active=True)
ActiveTemplates(T, doc_type) == {tpl \in T : tpl.doc_type = doc_type /\ tpl.is_active}

\* build_xml raises ValueError: no active template and no default encoder
Unbuildable(T, doc_type) == ActiveTemplates(T, doc_type) = {} /\ doc_type \notin DOC_TYPES

\* xml_builder.py build_xml, with the template table T, at minute t
\* faulty variant: an inactive template is used as well
build_xml_IgnoresIsActive(doc_type, data, T, t) ==
    IF \E tpl \in T : tpl.doc_type = doc_type
    THEN render(CHOOSE tpl \in T : tpl.doc_type = doc_type, data)
    ELSE _DEFAULT_BUILDERS(doc_type, data, t)

build_xml(doc_type, data, T, t) ==
    IF ActiveTemplates(T, doc_type) # {}
    THEN render(CHOOSE tpl \in ActiveTemplates(T, doc_type) : TRUE, data)
    ELSE _DEFAULT_BUILDERS(doc_type, data, t)

\* ------------------------------------------------------------ the tables
\* EdiDocument.objects.create(...).  Of raw_json the row keeps the business
\* content: the identifying keys are read by no rendering followed here.
IdentifyingKeys == {"docrobotId", "docflowId", "documentId", "id", "content", "docType", "raw"}
Content(raw) == [k \in DOMAIN raw \ IdentifyingKeys |-> raw[k]]

NewDocument(pk, id, flow, doc_type, raw, t) ==
    [pk |-> pk, docrobot_id |-> id, docflow_id |-> flow,
     doc_type |-> doc_type, raw_json |-> Content(raw),
     xml_content |-> "", received_at |-> t]

\* SendQueue.objects.create(document=doc): the field defaults
NewEntry(doc_pk) ==
    [document |-> doc_pk, status |-> STATUS_PENDING, attempts |-> 0,
     last_error |-> "", response |-> "", http_status |-> NULL,
     sent_at |-> NULL, next_retry |-> NULL]

ExistsDocrobotId(D, id) == \E d \in D : d.docrobot_id = id
ExistsDocflowId(D, flow) == \E d \in D : d.docflow_id = flow

DocByPk(pk)   == CHOOSE d \in docs : d.pk = pk
EntryOf(pk)   == CHOOSE e \in queue : e.document = pk
HasEntry(pk)  == \E e \in queue : e.document = pk

\* Model.save(): UPDATE by primary key, INSERT when no row has it
Save(Q, e) == {x \in Q : x.document # e.document} \cup {e}

\* Model.save(update_fields=[status]) / ([status, next_retry])
SaveStatus(Q, e) ==
    {IF x.document = e.document THEN [x EXCEPT !.status = e.status] ELSE x : x \in Q}
SaveStatusRetry(Q, e) ==
    {IF x.document = e.document
     THEN [x EXCEPT !.status = e.status, !.next_retry = e.next_retry] ELSE x : x \in Q}

SaveXml(D, pk, xml) ==
    {IF d.pk = pk THEN [d EXCEPT !.xml_content = xml] ELSE d : d \in D}

\* ------------------------------------------------------------ ingestion
\* An ingestion works on the pair of tables and the pk sequence.
Tables(D, Q, seq) == [docs |-> D, queue |-> Q, seq |-> seq]

\* EdiDocument.objects.create(...) followed by SendQueue.objects.create(document=doc)
CreateDocumentAndEntry(st, id, flow, doc_type, raw, t) ==
    Tables(st.docs \cup {NewDocument(st.seq + 1, id, flow, doc_type, raw, t)},
           st.queue \cup {NewEntry(st.seq + 1)},
           st.seq + 1)

\* management/commands/poll_docrobot.py: one pass of the for-loop of
\* _poll_cycle.  `doc` is an element of get_incoming_documents(), which is
\* already normalized; the loop normalizes it again.
PollItemV1(st, doc, t) ==
    LET normalized == normalize_document(doc, "ORDER")
        doc_id     == normalized.docrobotId
    IN  IF doc_id = NoId \/ ExistsDocrobotId(st.docs, doc_id)
        THEN st
        ELSE CreateDocumentAndEntry(st, doc_id, NoId, normalized.docType, normalized.raw, t)

\* edi/poll_docrobot.py: one pass of the for-loop of _poll_cycle.  The
\* create raises IntegrityError on a duplicate docrobot_id, which the
\* loop's except clause swallows.
PollItemV3(st, normalized, t) ==
    LET doc_id     == Get(normalized, "docrobotId")
        docflow_id == Get(normalized, "docflowId")
    IN  IF doc_id = NoId \/ docflow_id = NoId THEN st
        ELSE IF ExistsDocflowId(st.docs, docflow_id) THEN st
        ELSE IF ExistsDocrobotId(st.docs, doc_id) THEN st
        ELSE CreateDocumentAndEntry(st, doc_id, docflow_id, normalized.docType, normalized, t)

\* templates/edi/views.py api_poll_now._run: one pass of its for-loop
\* faulty variant: an id already stored has its queue entry created afresh
PollNowItem_RequeuesSeen(st, normalized, t) ==
    LET doc_id == Get(normalized, "docrobotId")
    IN  IF doc_id = NoId THEN st
        ELSE IF ExistsDocrobotId(st.docs, doc_id)
             THEN LET d == CHOOSE x \in st.docs : x.docrobot_id = doc_id
                  IN  Tables(st.docs, Save(st.queue, NewEntry(d.pk)), st.seq)
        ELSE CreateDocumentAndEntry(st, doc_id, NoId, normalized.docType, normalized, t)

PollNowItem(st, normalized, t) ==
    LET doc_id == Get(normalized, "docrobotId")
    IN  IF doc_id = NoId THEN st
        ELSE IF ExistsDocrobotId(st.docs, doc_id) THEN st
        ELSE CreateDocumentAndEntry(st, doc_id, NoId, normalized.docType, normalized, t)

RECURSIVE PollItemsV1(_, _, _)
PollItemsV1(st, documents, t) ==
    IF documents = <<>> THEN st
    ELSE PollItemsV1(PollItemV1(st, Head(documents), t), Tail(documents), t)

RECURSIVE PollItemsV3(_, _, _)
PollItemsV3(st, documents, t) ==
    IF documents = <<>> THEN st
    ELSE PollItemsV3(PollItemV3(st, Head(documents), t), Tail(documents), t)

RECURSIVE PollNowItems(_, _, _)
PollNowItems(st, documents, t) ==
    IF documents = <<>> THEN st
    ELSE PollNowItems(PollNowItem(st, Head(documents), t), Tail(documents), t)

\* services.py get_incoming_documents: the fetched envelopes, normalized
get_incoming_documents(items) ==
    [k \in 1..Len(items) |-> normalize_document(items[k], "ORDER")]

\* The document ids the fetched envelopes carry.
OfferedIds(items) == {items[k].documentId : k \in 1..Len(items)}
OfferedIdsV3(documents) == {documents[k].docrobotId : k \in 1..Len(documents)} \ {NoId}
StoredIds(D) == {d.docrobot_id : d \in D}

Event(op) == [op |-> op, seen |-> {}]

Ingested(op, offered) == [op |-> op, seen |-> offered \cap StoredIds(docs)]

\* handle: `if options['once']: break`, else time.sleep(interval) and the
\* next pass of `while True`.
\* faulty variant: the flag is not looked at
AfterCycle_IgnoresOnce == "sleep"

AfterCycle == IF once THEN "exited" ELSE "sleep"

NoHandler == poll_pc \in {"sleep", "exited"} /\ \A w \in Workers : flight[w] = {}

\* A process can take up a new piece of work.  The poller and the web
\* server are separate OS processes: with `overlap` a web request is served
\* while the poller is mid-cycle, and the poller starts a cycle while a web
\* request waits for the sink.
Idle(w) ==
    IF overlap
    THEN flight[w] = {} /\ (w = "poll" => poll_pc = "sleep")
    ELSE NoHandler /\ (w = "poll" => poll_pc = "sleep")

\* views.py api_webhook: get_or_create on docrobot_id, the entry only
\* when the document was created.
api_webhook(body) ==
    LET normalized == normalize_document(body, "ORDER")
        doc_id     == normalized.docrobotId
        st         == Tables(docs, queue, doc_seq)
        created    == doc_id # NoId /\ ~ExistsDocrobotId(docs, doc_id)
        st2        == IF created THEN CreateDocumentAndEntry(st, doc_id, NoId, normalized.docType,
                                                                  normalized.raw, now)
                      ELSE st
    IN  /\ Idle("web")
        /\ st2.seq <= MaxPk
        /\ docs' = st2.docs /\ queue' = st2.queue /\ doc_seq' = st2.seq
        /\ last' = Ingested("api_webhook", {doc_id} \ {NoId})
        /\ UNCHANGED <<now, poll_pc, batch, flight, cfg_max_retries, once, telegram, client, fetch, templates, overlap, thread, delivered, failures>>

\* templates/edi/views.py api_poll_now: the background thread's run
api_poll_now(items) ==
    LET st2 == PollNowItems(Tables(docs, queue, doc_seq),
                            get_incoming_documents(items), now)
    IN  /\ Idle("web")
        /\ st2.seq <= MaxPk
        /\ docs' = st2.docs /\ queue' = st2.queue /\ doc_seq' = st2.seq
        /\ last' = Ingested("api_poll_now", OfferedIds(items))
        /\ UNCHANGED <<now, poll_pc, batch, flight, cfg_max_retries, once, telegram, client, fetch, templates, overlap, thread, delivered, failures>>

\* management/commands/poll_docrobot.py Command._poll_cycle
poll_cycle_v1(items) ==
    LET st2 == PollItemsV1(Tables(docs, queue, doc_seq),
                           get_incoming_documents(items), now)
    IN  /\ Idle("poll")
        /\ st2.seq <= (IF doc_seq > MaxPk THEN doc_seq ELSE MaxPk)
        /\ docs' = st2.docs /\ queue' = st2.queue /\ doc_seq' = st2.seq
        /\ poll_pc' = "v1_fetched"
        /\ last' = Ingested("poll_cycle_v1", OfferedIds(items))
        /\ UNCHANGED <<now, batch, flight, cfg_max_retries, once, telegram, client, fetch, templates, overlap, thread, delivered, failures>>

\* edi/poll_docrobot.py Command._poll_cycle
poll_cycle_v3(documents) ==
    LET st2 == PollItemsV3(Tables(docs, queue, doc_seq), documents, now)
    IN  /\ Idle("poll")
        /\ st2.seq <= (IF doc_seq > MaxPk THEN doc_seq ELSE MaxPk)
        /\ docs' = st2.docs /\ queue' = st2.queue /\ doc_seq' = st2.seq
        /\ poll_pc' = "v3_fetched"
        /\ last' = Ingested("poll_cycle_v3", OfferedIdsV3(documents))
        /\ UNCHANGED <<now, batch, flight, cfg_max_retries, once, telegram, client, fetch, templates, overlap, thread, delivered, failures>>

\* ------------------------------------------- api_poll_now, step by step
\* templates/edi/views.py api_poll_now starts _run in a daemon thread and
\* returns.  The thread's database statements are separate transactions,
\* so other handlers run between them.
ThreadIdle(log) == [stage |-> "idle", items |-> <<>>, doc |-> NoId, log |-> log]

\* threading.Thread(target=_run, daemon=True).start(); get_incoming_documents
poll_now_start(items) ==
    /\ overlap /\ thread.stage = "idle"
    /\ thread' = [stage |-> "loop", items |-> get_incoming_documents(items),
                  doc |-> NoId, log |-> "none"]
    /\ last' = Event("poll_now_start")
    /\ UNCHANGED <<docs, queue, doc_seq, now, poll_pc, batch, flight, cfg_max_retries, once, telegram, client, fetch, templates,
                   overlap, delivered, failures>>

\* _run: top of the for-loop, the doc_id test and the exists() query
poll_now_check ==
    /\ thread.stage = "loop" /\ thread.items # <<>>
    /\ LET doc_id == Get(Head(thread.items), "docrobotId")
       IN  thread' = IF doc_id = NoId \/ ExistsDocrobotId(docs, doc_id)
                     THEN [thread EXCEPT !.items = Tail(@)]
                     ELSE [thread EXCEPT !.stage = "create"]
    /\ last' = Event("poll_now_check")
    /\ UNCHANGED <<docs, queue, doc_seq, now, poll_pc, batch, flight, cfg_max_retries, once, telegram, client, fetch, templates,
                   overlap, delivered, failures>>

\* _run: EdiDocument.objects.create.  docrobot_id is unique: when the id
\* was stored since the exists() query, the INSERT raises IntegrityError,
\* which only the except clause around the whole loop catches; it writes
\* an error ActivityLog and the thread ends.
poll_now_create_document ==
    /\ thread.stage = "create"
    /\ LET doc_id == Get(Head(thread.items), "docrobotId")
       IN  IF ExistsDocrobotId(docs, doc_id)
           THEN /\ thread' = [ThreadIdle("error") EXCEPT !.items = Tail(thread.items)]
                /\ UNCHANGED <<docs, doc_seq>>
           ELSE /\ doc_seq < MaxPk
                /\ docs' = docs \cup {NewDocument(doc_seq + 1, doc_id, NoId,
                                                Head(thread.items).docType,
                                                Head(thread.items), now)}
                /\ doc_seq' = doc_seq + 1
                /\ thread' = [thread EXCEPT !.stage = "entry", !.doc = doc_seq + 1]
    /\ last' = Event("poll_now_create_document")
    /\ UNCHANGED <<queue, now, poll_pc, batch, flight, cfg_max_retries, once, telegram, client, fetch, templates, overlap,
                   delivered, failures>>

\* _run: SendQueue.objects.create(document=doc), then the next item.  When
\* the document row has been deleted since, the foreign key fails the INSERT
\* and the thread ends in the outer except clause.
poll_now_create_entry ==
    /\ thread.stage = "entry"
    /\ IF \E d \in docs : d.pk = thread.doc
       THEN /\ queue' = queue \cup {NewEntry(thread.doc)}
            /\ thread' = [thread EXCEPT !.stage = "loop", !.items = Tail(@),
                                        !.doc = NoId]
       ELSE /\ queue' = queue
            /\ thread' = [ThreadIdle("error") EXCEPT !.items = Tail(thread.items)]
    /\ last' = Event("poll_now_create_entry")
    /\ UNCHANGED <<docs, doc_seq, now, poll_pc, batch, flight, cfg_max_retries, once, telegram, client, fetch, templates, overlap,
                   delivered, failures>>

\* _run: the loop is over, the info ActivityLog is written
poll_now_finish ==
    /\ thread.stage = "loop" /\ thread.items = <<>>
    /\ thread' = ThreadIdle("info")
    /\ last' = Event("poll_now_finish")
    /\ UNCHANGED <<docs, queue, doc_seq, now, poll_pc, batch, flight, cfg_max_retries, once, telegram, client, fetch, templates,
                   overlap, delivered, failures>>

\* daemon=True: the thread ends wherever it is when the server process exits
poll_now_killed ==
    /\ thread.stage # "idle"
    /\ thread' = ThreadIdle("killed")
    /\ last' = Event("poll_now_killed")
    /\ UNCHANGED <<docs, queue, doc_seq, now, poll_pc, batch, flight, cfg_max_retries, once, telegram, client, fetch, templates,
                   overlap, delivered, failures>>

\* ------------------------------------------------------------ notifier
\* TelegramNotifier: settings.TELEGRAM_BOT_TOKEN and TELEGRAM_CHAT_ID are
\* both set or not (they default to ''); `posted` is what the
\* process_document call in progress, or the last one, has posted.
NewNotifier(configured) == [configured |-> configured, posted |-> {}]

\* TelegramNotifier.send: nothing is posted unless token and chat id are set
TelegramNotifier_send(tg, message) ==
    IF ~tg.configured THEN tg ELSE [tg EXCEPT !.posted = @ \cup {message}]

\* TelegramNotifier.error(doc_type, doc_number, error)
TelegramNotifier_error(tg, document, error) ==
    TelegramNotifier_send(tg, [kind |-> "error", document |-> document, error |-> error])

\* TelegramNotifier.failed(doc_type, doc_number, attempts)
TelegramNotifier_failed(tg, document, attempts) ==
    TelegramNotifier_send(tg, [kind |-> "failed", document |-> document, attempts |-> attempts])

\* ------------------------------------------------------- delivery queue
\* SendQueue.mark_sent, on the in-memory entry e at time t
mark_sent(e, response_text, http_code, t) ==
    [e EXCEPT !.status = STATUS_SENT, !.response = response_text,
              !.http_status = http_code, !.sent_at = t, !.last_error = ""]

\* SendQueue.mark_error, on the in-memory entry e at time t
\* faulty variant: the limit compared with > instead of >=
mark_error_LimitExclusive(e, error, http_code, max_retries, t) ==
    LET attempts == e.attempts + 1
        counted  == [e EXCEPT !.attempts = attempts, !.last_error = error,
                              !.http_status = http_code]
    IN  IF attempts > max_retries
        THEN [counted EXCEPT !.status = STATUS_FAILED]
        ELSE [counted EXCEPT !.status = STATUS_ERROR,
                             !.next_retry = t + Min(BACKOFF_CAP, 2 ^ attempts)]

\* faulty variant: the delay computed from attempts before the increment
mark_error_BackoffBeforeIncrement(e, error, http_code, max_retries, t) ==
    LET attempts == e.attempts + 1
        counted  == [e EXCEPT !.attempts = attempts, !.last_error = error,
                              !.http_status = http_code]
    IN  IF attempts >= max_retries
        THEN [counted EXCEPT !.status = STATUS_FAILED]
        ELSE [counted EXCEPT !.status = STATUS_ERROR,
                             !.next_retry = t + Min(BACKOFF_CAP, 2 ^ e.attempts)]

mark_error(e, error, http_code, max_retries, t) ==
    LET attempts == e.attempts + 1
        counted  == [e EXCEPT !.attempts = attempts, !.last_error = error,
                              !.http_status = http_code]
    IN  IF attempts >= max_retries
        THEN [counted EXCEPT !.status = STATUS_FAILED]
        ELSE [counted EXCEPT !.status = STATUS_ERROR,
                             !.next_retry = t + Min(BACKOFF_CAP, 2 ^ attempts)]

\* What the sink can answer: a status code, or no answer (transport error).
SinkCodes == {200, 503}
TRANSPORT_ERROR == 0
SinkOutcomes == SinkCodes \cup {TRANSPORT_ERROR}

\* Statuses on both sides of the two ends of the 2xx range.
BoundaryCodes == {199, 200, 299, 300}
BoundaryOutcomes == BoundaryCodes \cup SinkOutcomes

\* Rows in the Meta ordering (-created_at): newest document first.
RECURSIVE Ordered(_)
Ordered(S) ==
    IF S = {} THEN <<>>
    ELSE LET e == CHOOSE x \in S : \A y \in S : y.document <= x.document
         IN  <<e>> \o Ordered(S \ {e})

\* queryset[:n]
Slice(s, n) == SubSeq(s, 1, Min(n, Len(s)))

Range(s) == {s[k] : k \in 1..Len(s)}

\* management/commands/poll_docrobot.py _process_queue: the two querysets
\* and their concatenation.  A null next_retry never satisfies __lte.
QueueEntriesV1(Q, t) ==
    LET entries == Slice(Ordered({e \in Q :
                        /\ e.status \in {STATUS_PENDING, STATUS_ERROR}
                        /\ e.next_retry # NULL /\ e.next_retry <= t}), QUEUE_SLICE)
        pending == Slice(Ordered({e \in Q :
                        /\ e.status = STATUS_PENDING
                        /\ e.next_retry = NULL}), QUEUE_SLICE)
    IN  entries \o SelectSeq(pending, LAMBDA e : e \notin Range(entries))

\* edi/poll_docrobot.py _process_queue: one queryset
\* faulty variant: Error entries selected whatever their next_retry
QueueEntriesV3_IgnoresRetryTime(Q, t) ==
    Slice(Ordered({e \in Q :
             \/ e.status = STATUS_PENDING /\ e.next_retry = NULL
             \/ e.status = STATUS_ERROR}),
          QUEUE_SLICE)

QueueEntriesV3(Q, t) ==
    Slice(Ordered({e \in Q :
             \/ e.status = STATUS_PENDING /\ e.next_retry = NULL
             \/ e.status = STATUS_ERROR /\ e.next_retry # NULL /\ e.next_retry <= t}),
          QUEUE_SLICE)

\* The failure count is followed up to MaxExtraAttempts past the limit.
CanFail(e) ==
    /\ e.attempts < cfg_max_retries + MaxExtraAttempts
    /\ failures[e.document] < cfg_max_retries + MaxExtraAttempts

\* 200 <= http_code < 300
\* faulty variant: 300 taken for a success
IsSuccess_UpTo300(outcome) == 200 <= outcome /\ outcome <= 300

IsSuccess(outcome) == 200 <= outcome /\ outcome < 300

\* services.py process_document up to the sink call, for the in-memory
\* entry e of worker w, the queue table being Q: render when nothing is
\* cached; a rendering error is marked and ends the attempt.
\* faulty variant: a rendering failure recorded without counting the attempt
StartDelivery_RenderFailureUncounted(w, e, Q) ==
    LET doc == DocByPk(e.document)
        xml == build_xml(doc.doc_type, doc.raw_json, templates, now)
    IN  \/ /\ doc.xml_content = "" /\ CanFail(e)
           /\ queue' = Save(Q, [e EXCEPT !.status = STATUS_ERROR,
                                         !.last_error = "xml_build",
                                         !.next_retry = now + 1])
           /\ failures' = [failures EXCEPT ![e.document] = @ + 1]
           /\ telegram' = [telegram EXCEPT !.posted = {}]
           /\ UNCHANGED <<docs, flight>>
        \/ /\ doc.xml_content = "" => ~Unbuildable(templates, doc.doc_type)
           /\ docs' = IF doc.xml_content = "" THEN SaveXml(docs, doc.pk, xml) ELSE docs
           /\ queue' = Q
           /\ flight' = [flight EXCEPT ![w] = {e}]
           /\ telegram' = [telegram EXCEPT !.posted = {}]
           /\ UNCHANGED failures

StartDelivery(w, e, Q) ==
    LET doc == DocByPk(e.document)
        xml == build_xml(doc.doc_type, doc.raw_json, templates, now)
    IN  \/ /\ doc.xml_content = "" /\ CanFail(e)
           /\ queue' = Save(Q, mark_error(e, "xml_build", NULL, cfg_max_retries, now))
           /\ failures' = [failures EXCEPT ![e.document] = @ + 1]
           /\ telegram' = [telegram EXCEPT !.posted = {}]
           /\ UNCHANGED <<docs, flight>>
        \/ /\ doc.xml_content = "" => ~Unbuildable(templates, doc.doc_type)
           /\ docs' = IF doc.xml_content = "" THEN SaveXml(docs, doc.pk, xml) ELSE docs
           /\ queue' = Q
           /\ flight' = [flight EXCEPT ![w] = {e}]
           /\ telegram' = [telegram EXCEPT !.posted = {}]
           /\ UNCHANGED failures

\* services.py process_document from the sink's answer on
FinishDelivery(w, outcome) ==
    /\ flight[w] # {}
    /\ LET e   == CHOOSE x \in flight[w] : TRUE
           id  == DocByPk(e.document).docrobot_id
           ok  == IsSuccess(outcome)
       IN  /\ ok => delivered[id] < MaxDeliveries
           /\ ~ok => CanFail(e)
           /\ queue' = Save(queue,
                 IF outcome = TRANSPORT_ERROR
                 THEN mark_error(e, "network", NULL, cfg_max_retries, now)
                 ELSE IF ok THEN mark_sent(e, "response", outcome, now)
                 ELSE mark_error(e, "http", outcome, cfg_max_retries, now))
           /\ telegram' =
                 IF outcome = TRANSPORT_ERROR
                 THEN TelegramNotifier_error(telegram, e.document, "network")
                 ELSE IF ok THEN telegram
                 ELSE IF mark_error(e, "http", outcome, cfg_max_retries, now).status = STATUS_FAILED
                      THEN TelegramNotifier_failed(telegram, e.document, e.attempts + 1)
                      ELSE TelegramNotifier_error(telegram, e.document, "http")
           /\ delivered' = IF ok THEN [delivered EXCEPT ![id] = @ + 1] ELSE delivered
           /\ failures' = IF ok THEN failures
                          ELSE [failures EXCEPT ![e.document] = @ + 1]
    /\ flight' = [flight EXCEPT ![w] = {}]
    /\ poll_pc' = IF w = "poll" /\ batch = <<>> THEN AfterCycle ELSE poll_pc
    /\ UNCHANGED <<docs, doc_seq, now, batch, cfg_max_retries, once, client, fetch, templates, overlap, thread, last>>

\* _process_queue: the queryset is evaluated; an empty one ends the cycle.
process_queue_v1 ==
    /\ poll_pc = "v1_fetched"
    /\ batch' = QueueEntriesV1(queue, now)
    /\ poll_pc' = IF batch' = <<>> THEN AfterCycle ELSE "queue"
    /\ last' = Event("process_queue_v1")
    /\ UNCHANGED <<docs, queue, doc_seq, now, flight, cfg_max_retries, once, telegram, client, fetch, templates, overlap, thread, delivered, failures>>

process_queue_v3 ==
    /\ poll_pc = "v3_fetched"
    /\ batch' = QueueEntriesV3(queue, now)
    /\ poll_pc' = IF batch' = <<>> THEN AfterCycle ELSE "queue"
    /\ last' = Event("process_queue_v3")
    /\ UNCHANGED <<docs, queue, doc_seq, now, flight, cfg_max_retries, once, telegram, client, fetch, templates, overlap, thread, delivered, failures>>

\* _process_queue, one pass of the loop up to the sink call: the entry is
\* saved as Sending, then handed to process_document.
process_queue_entry ==
    /\ poll_pc = "queue" /\ batch # <<>> /\ flight["poll"] = {}
    /\ LET entry == [Head(batch) EXCEPT !.status = STATUS_SENDING]
       IN  /\ StartDelivery("poll", entry, SaveStatus(queue, entry))
    /\ last' = Event("process_queue_entry")
    /\ batch' = Tail(batch)
    /\ poll_pc' = IF batch' = <<>> /\ flight'["poll"] = {} THEN AfterCycle ELSE poll_pc
    /\ UNCHANGED <<doc_seq, now, cfg_max_retries, once, client, fetch, templates, overlap, thread, delivered>>

\* handle: Ctrl+C while the poller waits for the sink.  KeyboardInterrupt is
\* not an Exception, so neither process_document nor _process_queue catches
\* it; the loop ends with the claimed entry still stored as Sending.  A
\* poller started later begins with a fresh cycle (a --once run is not
\* started again).
handle_KeyboardInterrupt ==
    /\ flight["poll"] # {}
    /\ flight' = [flight EXCEPT !["poll"] = {}]
    /\ batch' = <<>>
    /\ poll_pc' = AfterCycle
    /\ last' = Event("KeyboardInterrupt")
    /\ UNCHANGED <<docs, queue, doc_seq, now, cfg_max_retries, once, telegram, client, fetch, templates, overlap, thread, delivered, failures>>

\* _process_queue: an exception leaves process_document.  Its own try blocks
\* cover the rendering and the sink call; the statements outside them are
\* the ORM saves (mark_sent, mark_error, ActivityLog), which raise when the
\* database refuses the write.  The loop's except clause logs it and goes on
\* with the next entry; the entry stays as it was last saved, Sending.
\* faulty variant: the exception leaves the loop, the rest of the batch is dropped
process_document_raises_AbortsCycle ==
    /\ flight["poll"] # {}
    /\ flight' = [flight EXCEPT !["poll"] = {}]
    /\ batch' = <<>>
    /\ poll_pc' = AfterCycle
    /\ last' = Event("process_document_raises")
    /\ UNCHANGED <<docs, queue, doc_seq, now, cfg_max_retries, once, telegram, client, fetch, templates, overlap, thread, delivered, failures>>

process_document_raises ==
    /\ flight["poll"] # {}
    /\ flight' = [flight EXCEPT !["poll"] = {}]
    /\ poll_pc' = IF batch = <<>> THEN AfterCycle ELSE poll_pc
    /\ last' = Event("process_document_raises")
    /\ UNCHANGED <<docs, queue, doc_seq, now, batch, cfg_max_retries, once, telegram, client, fetch, templates, overlap, thread, delivered, failures>>

\* _poll_cycle: client.get_incoming_documents() raises (the credentials are
\* refused, the exchange does not answer).  The except clause logs it and
\* returns; handle goes on to _process_queue.  `fetched` is the command
\* that runs: "v1_fetched" or "v3_fetched".
\* faulty variant: the exception is let through to handle and ends the cycle
poll_cycle_fetch_fails_EndsCycle(fetched) ==
    /\ Idle("poll")
    /\ poll_pc' = AfterCycle
    /\ last' = Event("fetch_failed")
    /\ UNCHANGED <<docs, queue, doc_seq, now, batch, flight, cfg_max_retries, once, telegram, client, fetch, templates, overlap, thread, delivered, failures>>

poll_cycle_fetch_fails(fetched) ==
    /\ Idle("poll")
    /\ poll_pc' = fetched
    /\ last' = Event("fetch_failed")
    /\ UNCHANGED <<docs, queue, doc_seq, now, batch, flight, cfg_max_retries, once, telegram, client, fetch, templates, overlap, thread, delivered, failures>>

\* handle: an exception leaves _poll_cycle (its ActivityLog writes are outside
\* the per-document try); handle's `except Exception` logs it, _process_queue
\* is not called and the cycle is over.
poll_cycle_raises ==
    /\ Idle("poll")
    /\ poll_pc' = AfterCycle
    /\ last' = Event("poll_error")
    /\ UNCHANGED <<docs, queue, doc_seq, now, batch, flight, cfg_max_retries, once, telegram, client, fetch, templates, overlap, thread, delivered, failures>>

\* handle: an exception leaves _process_queue before its loop (the queryset
\* is evaluated outside the per-entry try); handle's `except Exception` logs
\* it and the cycle is over.
process_queue_raises ==
    /\ poll_pc \in {"v1_fetched", "v3_fetched"}
    /\ poll_pc' = AfterCycle
    /\ last' = Event("poll_error")
    /\ UNCHANGED <<docs, queue, doc_seq, now, batch, flight, cfg_max_retries, once, telegram, client, fetch, templates, overlap, thread, delivered, failures>>

\* views.py api_retry, refused: 404 for an unknown pk is no step at all,
\* 400 for a Sent entry changes nothing.
api_retry_refused(pk) ==
    /\ Idle("web")
    /\ HasEntry(pk) /\ EntryOf(pk).status = STATUS_SENT
    /\ last' = Event("api_retry_refused")
    /\ UNCHANGED <<docs, queue, doc_seq, now, poll_pc, batch, flight, cfg_max_retries, once, telegram, client, fetch, templates, overlap, thread,
                   delivered, failures>>

\* views.py api_retry up to the sink call
\* faulty variant: a manual retry that starts the attempt count again
api_retry_ResetsAttempts(pk) ==
    /\ Idle("web")
    /\ HasEntry(pk) /\ EntryOf(pk).status # STATUS_SENT
    /\ LET entry == [EntryOf(pk) EXCEPT !.status = STATUS_PENDING, !.next_retry = NULL,
                                        !.attempts = 0]
       IN  StartDelivery("web", entry, Save(queue, entry))
    /\ last' = Event("api_retry")
    /\ UNCHANGED <<doc_seq, now, poll_pc, batch, cfg_max_retries, once, client, fetch, templates, overlap, thread, delivered>>

\* faulty variant: the status alone is saved, the retry time stays
api_retry_KeepsRetryTime(pk) ==
    /\ Idle("web")
    /\ HasEntry(pk) /\ EntryOf(pk).status # STATUS_SENT
    /\ LET entry == [EntryOf(pk) EXCEPT !.status = STATUS_PENDING]
       IN  StartDelivery("web", entry, SaveStatus(queue, entry))
    /\ last' = Event("api_retry")
    /\ UNCHANGED <<doc_seq, now, poll_pc, batch, cfg_max_retries, once, client, fetch, templates, overlap, thread, delivered>>

api_retry(pk) ==
    /\ Idle("web")
    /\ HasEntry(pk) /\ EntryOf(pk).status # STATUS_SENT
    /\ LET entry == [EntryOf(pk) EXCEPT !.status = STATUS_PENDING, !.next_retry = NULL]
       IN  StartDelivery("web", entry, SaveStatusRetry(queue, entry))
    /\ last' = Event("api_retry")
    /\ UNCHANGED <<doc_seq, now, poll_pc, batch, cfg_max_retries, once, client, fetch, templates, overlap, thread, delivered>>

\* views.py api_send_document up to the sink call
api_send_document(pk) ==
    /\ Idle("web")
    /\ \E d \in docs : d.pk = pk
    /\ LET found == IF HasEntry(pk) THEN EntryOf(pk) ELSE NewEntry(pk)
           entry == [found EXCEPT !.status = STATUS_PENDING, !.next_retry = NULL]
       IN  StartDelivery("web", entry, SaveStatusRetry(queue \cup {found}, entry))
    /\ last' = Event("api_send_document")
    /\ UNCHANGED <<doc_seq, now, poll_pc, batch, cfg_max_retries, once, client, fetch, templates, overlap, thread, delivered>>

\* -------------------------------------------------------- XML templates
\* XmlTemplate(doc_type, body_tpl, position_tpl): is_active defaults to True
NewTemplate(doc_type, body_tpl, position_tpl) ==
    [doc_type |-> doc_type, body_tpl |-> body_tpl, position_tpl |-> position_tpl,
     is_active |-> TRUE]

\* xml_builder.py DEFAULT_TEMPLATES, each template cut at its placeholders
HeadTpl(doc_type) ==
    <<"<?xml version=\"1.0\" encoding=\"UTF-8\"?><Document><DocumentType>" \o doc_type
      \o "</DocumentType><DocumentId>", "{{number}}", "</DocumentId><DocumentDate>",
      "{{date}}", "</DocumentDate>">>

GlnTpl ==
    <<"<Parties><Supplier><GLN>", "{{supplier_gln}}", "</GLN></Supplier><Buyer><GLN>",
      "{{buyer_gln}}", "</GLN></Buyer></Parties>">>

LinesTpl(tag) == <<"<" \o tag \o ">", "{{positions}}", "</" \o tag \o "></Document>">>

DEFAULT_TEMPLATES(doc_type) ==
    CASE doc_type = "ORDER" ->
           NewTemplate("ORDER",
               HeadTpl("ORDER")
               \o <<"<DeliveryDate>", "{{delivery_date}}", "</DeliveryDate><Currency>",
                    "{{currency}}", "</Currency><Parties><Supplier><GLN>",
                    "{{supplier_gln}}", "</GLN><Name>", "{{supplier_name}}",
                    "</Name></Supplier><Buyer><GLN>", "{{buyer_gln}}", "</GLN><Name>",
                    "{{buyer_name}}", "</Name></Buyer></Parties>">>
               \o LinesTpl("Lines"),
               <<"<Line><LineNumber>", "{{line}}", "</LineNumber><EAN>", "{{ean}}",
                 "</EAN><ItemCode>", "{{item_code}}", "</ItemCode><ItemName>",
                 "{{item_name}}", "</ItemName><Quantity>", "{{quantity}}",
                 "</Quantity><UnitPrice>", "{{unit_price}}", "</UnitPrice><VAT>",
                 "{{vat}}", "</VAT><Amount>", "{{amount}}", "</Amount><AmountWithVAT>",
                 "{{amount_with_vat}}", "</AmountWithVAT></Line>">>)
      [] doc_type = "ORDRSP" ->
           NewTemplate("ORDRSP",
               HeadTpl("ORDRSP")
               \o <<"<OrderNumber>", "{{order_number}}", "</OrderNumber>">>
               \o GlnTpl \o LinesTpl("Lines"),
               <<"<Line><LineNumber>", "{{line}}", "</LineNumber><EAN>", "{{ean}}",
                 "</EAN><ItemName>", "{{item_name}}", "</ItemName><Quantity>",
                 "{{quantity}}", "</Quantity><UnitPrice>", "{{unit_price}}",
                 "</UnitPrice></Line>">>)
      [] doc_type = "DESADV" ->
           NewTemplate("DESADV",
               HeadTpl("DESADV")
               \o <<"<ShipmentDate>", "{{shipment_date}}", "</ShipmentDate><OrderNumber>",
                    "{{order_number}}", "</OrderNumber>">>
               \o GlnTpl \o LinesTpl("Lines"),
               <<"<Line><LineNumber>", "{{line}}", "</LineNumber><EAN>", "{{ean}}",
                 "</EAN><ItemName>", "{{item_name}}", "</ItemName><Quantity>",
                 "{{quantity}}", "</Quantity></Line>">>)
      [] doc_type = "INVOICE" ->
           NewTemplate("INVOICE",
               HeadTpl("INVOICE")
               \o <<"<OrderNumber>", "{{order_number}}", "</OrderNumber><TotalAmount>",
                    "{{total_amount}}", "</TotalAmount><TotalVAT>", "{{total_vat}}",
                    "</TotalVAT><TotalWithVAT>", "{{total_with_vat}}",
                    "</TotalWithVAT><Currency>", "{{currency}}", "</Currency>">>
               \o GlnTpl \o LinesTpl("Lines"),
               <<"<Line><LineNumber>", "{{line}}", "</LineNumber><EAN>", "{{ean}}",
                 "</EAN><ItemName>", "{{item_name}}", "</ItemName><Quantity>",
                 "{{quantity}}", "</Quantity><UnitPrice>", "{{unit_price}}",
                 "</UnitPrice><VAT>", "{{vat}}", "</VAT><Amount>", "{{amount}}",
                 "</Amount><AmountWithVAT>", "{{amount_with_vat}}",
                 "</AmountWithVAT></Line>">>)
      [] doc_type = "PRICAT" ->
           NewTemplate("PRICAT",
               HeadTpl("PRICAT")
               \o <<"<Currency>", "{{currency}}", "</Currency>">>
               \o GlnTpl \o LinesTpl("Items"),
               <<"<Item><LineNumber>", "{{line}}", "</LineNumber><EAN>", "{{ean}}",
                 "</EAN><ItemCode>", "{{item_code}}", "</ItemCode><ItemName>",
                 "{{item_name}}", "</ItemName><UnitPrice>", "{{unit_price}}",
                 "</UnitPrice><VAT>", "{{vat}}", "</VAT></Item>">>)

\* What an operator posts to template_edit: a body of their own or a body
\* that is nothing but the position block, with a short position template.
BodyEdits ==
    {<<"<Doc n=\"", "{{number}}", "\" d=\"", "{{date}}", "\">", "{{positions}}", "</Doc>">>,
     <<"{{positions}}">>}
PositionEdits == {<<"<L>", "{{line}}", "</L>">>}

\* views.py settings_view: get_or_create of the default template of every
\* doc type
settings_view ==
    /\ Idle("web")
    /\ templates' = templates \cup
          {DEFAULT_TEMPLATES(t) : t \in {x \in DOC_TYPES :
                                           \A tpl \in templates : tpl.doc_type # x}}
    /\ last' = Event("settings_view")
    /\ UNCHANGED <<docs, queue, doc_seq, now, poll_pc, batch, flight, cfg_max_retries, once, telegram, client, fetch,
                   overlap, thread, delivered, failures>>

\* views.py template_edit, POST: the row of doc_type is overwritten with
\* the posted fields.  Only the templates of doc types that have a stored
\* document are followed.
template_edit(doc_type, body_tpl, position_tpl, is_active) ==
    /\ Idle("web")
    /\ \E tpl \in templates : tpl.doc_type = doc_type
    /\ \E d \in docs : d.doc_type = doc_type
    /\ templates' = {tpl \in templates : tpl.doc_type # doc_type}
                    \cup {[NewTemplate(doc_type, body_tpl, position_tpl)
                             EXCEPT !.is_active = is_active]}
    /\ last' = Event("template_edit")
    /\ UNCHANGED <<docs, queue, doc_seq, now, poll_pc, batch, flight, cfg_max_retries, once, telegram, client, fetch,
                   overlap, thread, delivered, failures>>

\* views.py document_detail: the page renders and stores the XML of a
\* document that has none; an exception of build_xml is passed over.  A
\* stored raw_json is never the empty dict.
document_detail(pk) ==
    /\ Idle("web")
    /\ \E d \in docs : d.pk = pk
    /\ LET doc == DocByPk(pk)
           xml == build_xml(doc.doc_type, doc.raw_json, templates, now)
       IN  docs' = IF doc.xml_content = "" /\ ~Unbuildable(templates, doc.doc_type)
                   THEN SaveXml(docs, pk, xml) ELSE docs
    /\ last' = Event("document_detail")
    /\ UNCHANGED <<queue, doc_seq, now, poll_pc, batch, flight, cfg_max_retries, once, telegram, client, fetch,
                   templates, overlap, thread, delivered, failures>>

\* export.py export_xml_bundle of one document: the response is the stored
\* XML when there is one, a rendering made for the download (and not
\* stored) otherwise, an error document when the rendering fails.
XML_GENERATION_FAILED == "<?xml version='1.0' encoding='utf-8'?><error>XML generation failed</error>"

export_xml_bundle(pk) ==
    /\ Idle("web")
    /\ \E d \in docs : d.pk = pk
    /\ LET doc == DocByPk(pk)
       IN  last' = [op |-> "export_xml_bundle", seen |-> {}, pk |-> pk,
                    xml_bytes |-> IF doc.xml_content # "" THEN doc.xml_content
                                  ELSE IF Unbuildable(templates, doc.doc_type)
                                       THEN XML_GENERATION_FAILED
                                  ELSE build_xml(doc.doc_type, doc.raw_json, templates, now)]
    /\ UNCHANGED <<docs, queue, doc_seq, now, poll_pc, batch, flight, cfg_max_retries, once, telegram, client, fetch,
                   templates, overlap, thread, delivered, failures>>

\* ------------------------------------------------------------ retention
\* cleanup_old Command.handle with --days: documents received before the
\* threshold are deleted, their queue entries with them (on_delete=CASCADE).
cleanup_old(days) ==
    LET threshold == now - days * MINUTES_PER_DAY
        old_docs  == {d \in docs : d.received_at < threshold}
    IN  /\ NoHandler
        /\ days > 0
        /\ docs' = docs \ old_docs
        /\ queue' = {e \in queue : \A d \in old_docs : d.pk # e.document}
        /\ last' = Event("cleanup_old")
        /\ UNCHANGED <<doc_seq, now, poll_pc, batch, flight, cfg_max_retries, once, telegram, client, fetch, templates, overlap, thread,
                       delivered, failures>>

\* ----------------------------------------------------------------- time
\* The clock advances to the next moment at which a retry falls due or a
\* document reaches the retention age.
RetryDeadlines ==
    {e.next_retry : e \in {x \in queue : x.next_retry # NULL}} \cap 0..RetryHorizon
RetentionDeadlines ==
    {d.received_at + k * MINUTES_PER_DAY + 1 : d \in docs, k \in 1..MaxCleanupDays}
Deadlines == RetryDeadlines \cup RetentionDeadlines

Tick(t) ==
    /\ t \in Deadlines /\ t > now /\ t <= MaxTime
    /\ now' = t
    /\ UNCHANGED <<docs, queue, doc_seq, poll_pc, batch, flight, cfg_max_retries, once, telegram, client, fetch, templates, overlap, thread,
                   delivered, failures, last>>

\* ------------------------------------------------- the upstream client
\* DocrobotClient._get, one statement at a time.  `client` holds the cached
\* token, where the call stands, the pass of its retry loop, the exception
\* kept in last_exc, and how many GET and auth requests the call has made.
RETRIES == 3                    \* _get(url, retries=3)
NO_TOKEN == 1                   \* an auth answer with no token in its body
UpstreamAnswers == {200, 401, 500, TRANSPORT_ERROR}
AuthAnswers == {200, 401, NO_TOKEN, TRANSPORT_ERROR}
Urls == {"docTypes/ORDER", "docTypes/ORDER/document/1"}

NewCall(token, url) ==
    [pc |-> "headers", url |-> url, token |-> token, attempt |-> 0,
     last_exc |-> NULL, gets |-> 0, posts |-> 0, status_code |-> NULL]

\* DocrobotClient(): no token yet, no call under way
NewClient == [NewCall(NULL, "") EXCEPT !.pc = "idle"]

\* except requests.RequestException as e: the next pass of the loop after
\* the sleep, or `raise last_exc` after the last pass
except_RequestException(c, e) ==
    IF c.attempt < RETRIES - 1
    THEN [c EXCEPT !.last_exc = e, !.attempt = @ + 1, !.pc = "headers"]
    ELSE [c EXCEPT !.last_exc = e, !.pc = "raised"]

\* whatever the client does, the tables and the processes stay as they are
ClientStep ==
    UNCHANGED <<docs, queue, doc_seq, now, poll_pc, batch, flight, cfg_max_retries,
                once, telegram, fetch, templates, overlap, thread, delivered, failures, last>>

\* _fetch_type / _fetch_document call self._get(url)
_get(url) ==
    /\ client.pc \in {"idle", "returned", "raised"}
    /\ client' = NewCall(client.token, url)
    /\ ClientStep

\* self._headers() -> _get_token(): the cached token, or POST /api/v1/auth.
\* An HTTP error of the auth request is a RequestException raised inside
\* the try block; a body without a token raises ValueError, which _get
\* does not catch.
_get_token(answer) ==
    /\ client.pc \in {"headers", "reheaders"}
    /\ LET next == IF client.pc = "headers" THEN "get" ELSE "reget"
           c    == [client EXCEPT !.posts = @ + 1]
       IN  client' =
             IF client.token # NULL THEN [client EXCEPT !.pc = next]
             ELSE IF answer = 200 THEN [c EXCEPT !.token = 1, !.pc = next]
             ELSE IF answer = NO_TOKEN THEN [c EXCEPT !.last_exc = NO_TOKEN, !.pc = "raised"]
             ELSE except_RequestException(c, answer)
    /\ ClientStep

\* requests.get(url, headers, timeout=30) and what follows its answer: a
\* 401 to the first request of a pass resets the token and the request is
\* made again; a response that is not ok raises in raise_for_status.
requests_get(answer) ==
    /\ client.pc \in {"get", "reget"}
    /\ LET c == [client EXCEPT !.gets = @ + 1, !.status_code = answer]
       IN  client' =
             IF answer = TRANSPORT_ERROR THEN except_RequestException(c, answer)
             ELSE IF answer = 401 /\ client.pc = "get"
                  THEN [c EXCEPT !.token = NULL, !.pc = "reheaders"]
             ELSE IF answer = 200 THEN [c EXCEPT !.pc = "returned"]
             ELSE except_RequestException(c, answer)
    /\ ClientStep

\* ------------------------------------------------------ the batch fetch
\* DocrobotClient.get_incoming_documents and _fetch_type, one request at a
\* time.  A _get call either returns its response or raises (SpecGet).  The
\* upstream holds documents of one doc type, served in pages of PAGE_SIZE:
\* every page but the last is full.
PAGE_SIZE == 100                \* pageSize=100, len(items) < 100
GetOutcomes == {"returned", "raised"}
DocrobotClient_DOC_TYPES == <<"ORDER", "ORDRSP", "DESADV", "INVOICE", "PRICAT">>

\* the last page: an item that carries no id, and one that does
ShortPage == <<[docflowId |-> 1], [documentId |-> 1, docflowId |-> 1]>>
FullPage  == [k \in 1..PAGE_SIZE |-> [documentId |-> 1, docflowId |-> 1]]
PageLists == {<<>>, <<ShortPage>>, <<FullPage>>, <<FullPage, ShortPage>>,
              <<FullPage, FullPage>>}

\* a JSON body that is a list, where the code expects an object
ListContent == b64encode(json_text(Arr(<<>>)))
FetchContents == {EmptyContent, ListContent}

RECURSIVE TotalOf(_)
TotalOf(pages) == IF pages = <<>> THEN 0 ELSE Len(Head(pages)) + TotalOf(Tail(pages))

\* What the inbox of the upstream can be: the doc type it holds, its pages,
\* whether a list response reports the total, and the content every full
\* document carries.
Servers ==
    {[doc_type |-> ty, pages |-> pages, reports_total |-> r, content |-> c] :
        ty \in {"ORDER"}, pages \in PageLists, r \in BOOLEAN, c \in FetchContents}

\* resp.json() of the list request for page `page` of doc_type
ListResponse(server, doc_type, page) ==
    LET items == IF doc_type = server.doc_type /\ page <= Len(server.pages)
                 THEN server.pages[page] ELSE <<>>
    IN  IF server.reports_total
        THEN [items |-> items,
              total |-> IF doc_type = server.doc_type THEN TotalOf(server.pages) ELSE 0]
        ELSE [items |-> items]

\* resp.json() of the document request for an item
DocumentResponse(server, item) ==
    [documentId |-> item.documentId, docflowId |-> item.docflowId,
     content |-> server.content]

NewFetch ==
    [pc |-> "idle", server |-> [doc_type |-> "", pages |-> <<>>,
                                reports_total |-> FALSE, content |-> EmptyContent],
     types |-> <<>>, page |-> 0, data |-> [items |-> <<>>], items |-> <<>>,
     result |-> <<>>, all_docs |-> <<>>, failed |-> 0, succeeded |-> 0]

\* everything but the fetch stays as it is
FetchStep ==
    UNCHANGED <<docs, queue, doc_seq, now, poll_pc, batch, flight, cfg_max_retries,
                once, telegram, client, templates, overlap, thread, delivered, failures, last>>

\* get_incoming_documents(): all_docs = [], the for-loop is entered
get_incoming_documents_call(server) ==
    /\ fetch.pc = "idle"
    /\ fetch' = [NewFetch EXCEPT !.pc = "for", !.server = server,
                                 !.types = DocrobotClient_DOC_TYPES]
    /\ FetchStep

\* _fetch_type returns result: all_docs.extend(docs), the next doc type
ReturnResult(f) ==
    [f EXCEPT !.pc = "for", !.types = Tail(@), !.all_docs = @ \o f.result,
              !.result = <<>>, !.items = <<>>]

\* for doc_type in self.DOC_TYPES: _fetch_type(doc_type, ...) is entered
\* with result = [] and page = 1; after the last type all_docs is returned
for_doc_type ==
    /\ fetch.pc = "for"
    /\ fetch' = IF fetch.types = <<>> THEN [fetch EXCEPT !.pc = "returned"]
                ELSE [fetch EXCEPT !.pc = "list", !.page = 1, !.result = <<>>]
    /\ FetchStep

\* _fetch_type: resp = self._get(url) of a list page.  An exception leaves
\* _fetch_type with its result and is logged by get_incoming_documents; an
\* empty page ends the loop.
_fetch_type_list(outcome) ==
    /\ fetch.pc = "list"
    /\ LET data == ListResponse(fetch.server, Head(fetch.types), fetch.page)
       IN  fetch' =
             IF outcome = "raised"
             THEN [fetch EXCEPT !.pc = "for", !.types = Tail(@), !.result = <<>>,
                                !.items = <<>>]
             ELSE IF data.items = <<>> THEN ReturnResult(fetch)
             ELSE [fetch EXCEPT !.pc = "item", !.data = data, !.items = data.items]
    /\ FetchStep

\* _fetch_type, one pass of `for item in items`: an item without an id is
\* passed over; _fetch_document and normalize_document run inside a try
\* whose except clause logs and goes on.
_fetch_type_item(outcome) ==
    /\ fetch.pc = "item" /\ fetch.items # <<>>
    /\ LET item   == Head(fetch.items)
           doc_id == IF Get(item, "documentId") # NoId
                     THEN Get(item, "documentId") ELSE Get(item, "id")
           full   == DocumentResponse(fetch.server, item)
           normalized == normalize_document(full, Head(fetch.types))
           rest   == [fetch EXCEPT !.items = Tail(@)]
       IN  /\ doc_id = NoId => outcome = "returned"
           /\ outcome = "raised" => fetch.failed < MaxFailedItems
           /\ fetch' =
                IF doc_id = NoId THEN rest
                ELSE IF outcome = "raised" THEN [rest EXCEPT !.failed = @ + 1]
                ELSE IF IsRaised(normalized) THEN rest
                ELSE [rest EXCEPT !.result = Append(@, normalized),
                                  !.succeeded = @ + 1]
    /\ FetchStep

\* _fetch_type after the items of a page: the last-page test, page += 1
_fetch_type_page_end ==
    /\ fetch.pc = "item" /\ fetch.items = <<>>
    /\ LET items == fetch.data.items
           total == IF "total" \in DOMAIN fetch.data THEN fetch.data.total ELSE Len(items)
       IN  fetch' = IF Len(items) < PAGE_SIZE \/ Len(fetch.result) >= total
                    THEN ReturnResult(fetch)
                    ELSE [fetch EXCEPT !.pc = "list", !.page = @ + 1]
    /\ FetchStep

\* The state after migration, before anything is ingested.
Empty ==
    /\ docs = {} /\ queue = {} /\ doc_seq = 0
    /\ now = 0
    /\ poll_pc = "sleep" /\ batch = <<>>
    /\ flight = [w \in Workers |-> {}]
    /\ delivered = [i \in Ids |-> 0]
    /\ failures = [pk \in 1..MaxPk |-> 0]
    /\ last = Event("init")
    /\ thread = ThreadIdle("none")
    /\ templates = {}
    /\ client = NewClient
    /\ fetch = NewFetch
    /\ once = FALSE
    /\ telegram = NewNotifier(FALSE)

\* The default deployment: ONEC_MAX_RETRIES is not set in the environment.
Init == Empty /\ cfg_max_retries = ONEC_MAX_RETRIES /\ overlap = FALSE

\* Any deployment: ONEC_MAX_RETRIES is whatever the environment says.
InitRetries == Empty /\ cfg_max_retries \in 1..MaxRetryLimit /\ overlap = FALSE

Next ==
    \/ \E items \in FetchLists : poll_cycle_v1(items)
    \/ \E documents \in FetchListsV3 : poll_cycle_v3(documents)
    \/ process_queue_v1
    \/ process_queue_v3
    \/ process_queue_entry
    \/ handle_KeyboardInterrupt
    \/ \E items \in FetchLists : api_poll_now(items)
    \/ \E body \in WebhookBodies : api_webhook(body)
    \/ \E pk \in 1..MaxPk : api_retry_refused(pk)
    \/ \E pk \in 1..MaxPk : api_retry(pk)
    \/ \E pk \in 1..MaxPk : api_send_document(pk)
    \/ \E w \in Workers, outcome \in SinkOutcomes : FinishDelivery(w, outcome)
    \/ \E days \in 1..MaxCleanupDays : cleanup_old(days)
    \/ \E t \in Deadlines : Tick(t)

Spec == Init /\ [][Next]_vars

SpecRetries == InitRetries /\ [][Next]_vars

\* The poller process, web requests and the api_poll_now thread overlapping,
\* within one minute and with no retention run.
InitConc == Empty /\ cfg_max_retries = ConcRetryLimit /\ overlap = TRUE

NextConc ==
    \/ \E items \in FetchLists : poll_cycle_v1(items)
    \/ \E documents \in FetchListsV3 : poll_cycle_v3(documents)
    \/ process_queue_v1
    \/ process_queue_v3
    \/ process_queue_entry
    \/ handle_KeyboardInterrupt
    \/ \E items \in FetchLists : poll_now_start(items)
    \/ poll_now_check
    \/ poll_now_create_document
    \/ poll_now_create_entry
    \/ poll_now_finish
    \/ poll_now_killed
    \/ \E body \in WebhookBodies : api_webhook(body)
    \/ \E pk \in 1..MaxPk : api_retry_refused(pk)
    \/ \E pk \in 1..MaxPk : api_retry(pk)
    \/ \E pk \in 1..MaxPk : api_send_document(pk)
    \/ \E w \in Workers, outcome \in SinkOutcomes : FinishDelivery(w, outcome)

SpecConc == InitConc /\ [][NextConc]_vars

\* Deliveries against a sink that answers with any of BoundaryOutcomes,
\* within one minute.
NextSink ==
    \/ \E body \in WebhookBodies : api_webhook(body)
    \/ \E documents \in FetchListsV3 : poll_cycle_v3(documents)
    \/ process_queue_v3
    \/ process_queue_entry
    \/ \E pk \in 1..MaxPk : api_retry_refused(pk)
    \/ \E pk \in 1..MaxPk : api_retry(pk)
    \/ \E pk \in 1..MaxPk : api_send_document(pk)
    \/ \E w \in Workers, outcome \in BoundaryOutcomes : FinishDelivery(w, outcome)

SpecSink == Init /\ [][NextSink]_vars

\* A backlog: n ORDER documents received and rendered at minute 0, the first k of
\* them answered 503 once (retry due at minute 2), the rest never attempted;
\* it is minute 2, the sink is up again and the upstream has nothing new.
Backlog(n, k) ==
    /\ docs = {[NewDocument(pk, pk, NoId, "ORDER", MinimalDocument, 0)
                 EXCEPT !.xml_content = build_xml("ORDER", MinimalDocument, {}, 0)] :
               pk \in 1..n}
    /\ queue = {IF pk <= k THEN mark_error(NewEntry(pk), "http", 503, ONEC_MAX_RETRIES, 0)
                           ELSE NewEntry(pk) : pk \in 1..n}
    /\ doc_seq = n
    /\ now = 2
    /\ failures = [pk \in 1..n |-> IF pk <= k THEN 1 ELSE 0]
    /\ delivered = [pk \in 1..n |-> 0]
    /\ templates = {}
    /\ client = NewClient
    /\ fetch = NewFetch

InitSlice ==
    /\ \E n \in 0..MaxQueue : \E k \in 0..n : Backlog(n, k)
    /\ once = FALSE
    /\ telegram = NewNotifier(FALSE)
    /\ poll_pc = "sleep" /\ batch = <<>>
    /\ flight = [w \in Workers |-> {}]
    /\ cfg_max_retries = ONEC_MAX_RETRIES /\ overlap = FALSE
    /\ thread = ThreadIdle("none")
    /\ last = Event("init")

NextSlice ==
    \/ poll_cycle_v1(<<>>)
    \/ poll_cycle_v3(<<>>)
    \/ process_queue_v1
    \/ process_queue_v3
    \/ process_queue_entry
    \/ FinishDelivery("poll", 200)

SpecSlice == InitSlice /\ [][NextSlice]_vars

\* Rendering and delivery of NumRenderDocs stored documents of one doc type
\* and one content, with the operator on the settings pages.
InitRender ==
    /\ \E doc_type \in DOC_TYPES, data \in RenderDocuments :
          docs = {NewDocument(pk, pk, NoId, doc_type, data, 0) : pk \in 1..NumRenderDocs}
    /\ queue = {NewEntry(pk) : pk \in 1..NumRenderDocs}
    /\ doc_seq = NumRenderDocs
    /\ now = 0
    /\ poll_pc = "sleep" /\ batch = <<>>
    /\ flight = [w \in Workers |-> {}]
    /\ delivered = [pk \in 1..NumRenderDocs |-> 0]
    /\ failures = [pk \in 1..NumRenderDocs |-> 0]
    /\ cfg_max_retries = ConcRetryLimit /\ overlap = FALSE
    /\ thread = ThreadIdle("none")
    /\ templates = {}
    /\ client = NewClient
    /\ fetch = NewFetch
    /\ once = FALSE
    /\ telegram = NewNotifier(FALSE)
    /\ last = Event("init")

NextRender ==
    \/ settings_view
    \/ \E doc_type \in DOC_TYPES, body_tpl \in BodyEdits, position_tpl \in PositionEdits,
          is_active \in BOOLEAN : template_edit(doc_type, body_tpl, position_tpl, is_active)
    \/ \E pk \in 1..NumRenderDocs : document_detail(pk)
    \/ \E pk \in 1..NumRenderDocs : export_xml_bundle(pk)
    \/ poll_cycle_v3(<<>>)
    \/ process_queue_v3
    \/ process_queue_entry
    \/ \E pk \in 1..NumRenderDocs : api_retry(pk)
    \/ \E w \in Workers, outcome \in SinkCodes : FinishDelivery(w, outcome)
    \/ \E t \in RetentionDeadlines : Tick(t)

SpecRender == InitRender /\ [][NextRender]_vars

\* One DocrobotClient making _get calls against an upstream and an auth
\* endpoint that answer as they like.
InitGet == Empty /\ cfg_max_retries = ONEC_MAX_RETRIES /\ overlap = FALSE

NextGet ==
    \/ \E url \in Urls : _get(url)
    \/ \E answer \in AuthAnswers : _get_token(answer)
    \/ \E answer \in UpstreamAnswers : requests_get(answer)

SpecGet == InitGet /\ [][NextGet]_vars

\* The item contents normalize_document is tried on.  A position is a dict
\* with a product and an ordered quantity that is a number, a text or
\* absent - or not a dict at all; a document body has a number, up to
\* MaxPositions positions and an amount that is a number, a text or absent.
QuantityValues == {Num(5), Num(7), Str("abc")}
PositionValues ==
    {Obj([PRODUCT |-> Str("111"), ORDEREDQUANTITY |-> q]) : q \in QuantityValues}
    \cup {Obj([PRODUCT |-> Str("111")]), Str("111")}
PositionLists == UNION {[1..n -> PositionValues] : n \in 0..MaxPositions}
Bodies ==
    {Obj([NUMBER |-> Str("123"), HEAD |-> Obj([POSITION |-> Arr(l)])]) :
        l \in PositionLists}
    \cup {Obj([NUMBER |-> Num(123), AMOUNT |-> a,
               HEAD |-> Obj([POSITION |-> Arr(l)])]) :
            l \in PositionLists, a \in {Num(10), Str("n/a")}}
ItemContents ==
    {EmptyContent, NotBase64, b64encode(NotJson),
     b64encode(json_text(Arr(<<>>))), b64encode(json_text(Num(7)))}
    \cup {b64encode(json_text(Obj([ORDER |-> body]))) : body \in Bodies}
    \cup {b64encode(json_text(Obj([INVOICE |-> body]))) : body \in Bodies}
Items ==
    {[documentId |-> 1, docflowId |-> 1]}
    \cup {[documentId |-> 1, docflowId |-> 1, content |-> c] : c \in ItemContents}

\* client.normalize_document(raw, doc_type), called on its own
call_normalize_document(raw, doc_type) ==
    /\ last' = [op |-> "normalize_document", seen |-> {}, raw |-> raw,
                doc_type |-> doc_type,
                normalized |-> normalize_document(raw, doc_type)]
    /\ UNCHANGED <<docs, queue, doc_seq, now, poll_pc, batch, flight, cfg_max_retries,
                   once, telegram, client, fetch, templates, overlap, thread, delivered, failures>>

InitNormalize == Empty /\ cfg_max_retries = ONEC_MAX_RETRIES /\ overlap = FALSE

NextNormalize ==
    \E raw \in Items, doc_type \in {"ORDER", "INVOICE"} :
        call_normalize_document(raw, doc_type)

SpecNormalize == InitNormalize /\ [][NextNormalize]_vars

\* One get_incoming_documents call against an upstream whose requests
\* return or raise as they like.
InitFetch == Empty /\ cfg_max_retries = ONEC_MAX_RETRIES /\ overlap = FALSE

NextFetch ==
    \/ \E server \in Servers : get_incoming_documents_call(server)
    \/ for_doc_type
    \/ \E outcome \in GetOutcomes : _fetch_type_list(outcome)
    \/ \E outcome \in GetOutcomes : _fetch_type_item(outcome)
    \/ _fetch_type_page_end

SpecFetch == InitFetch /\ [][NextFetch]_vars

\* The poll command run once (--once) or as a loop, over a backlog of MaxPk
\* entries, against a sink that answers with any of SinkOutcomes and a
\* database that can refuse a write.
InitRun ==
    /\ \E k \in 0..MaxPk : Backlog(MaxPk, k)
    /\ once \in BOOLEAN
    /\ telegram = NewNotifier(FALSE)
    /\ poll_pc = "sleep" /\ batch = <<>>
    /\ flight = [w \in Workers |-> {}]
    /\ cfg_max_retries = ONEC_MAX_RETRIES /\ overlap = FALSE
    /\ thread = ThreadIdle("none")
    /\ last = Event("init")

NextRun ==
    \/ \E items \in FetchLists : poll_cycle_v1(items)
    \/ \E documents \in FetchListsV3 : poll_cycle_v3(documents)
    \/ process_queue_v1
    \/ \E fetched \in {"v1_fetched", "v3_fetched"} : poll_cycle_fetch_fails(fetched)
    \/ poll_cycle_raises
    \/ process_queue_v3
    \/ process_queue_raises
    \/ process_queue_entry
    \/ \E outcome \in SinkOutcomes : FinishDelivery("poll", outcome)
    \/ process_document_raises
    \/ handle_KeyboardInterrupt
    \/ \E t \in Deadlines : Tick(t)

SpecRun == InitRun /\ [][NextRun]_vars

\* The same run with the command's process scheduled: the sink call returns
\* or times out (ONEC_TIMEOUT), time.sleep returns.
SpecRunLive == InitRun /\ [][NextRun]_vars /\ WF_vars(NextRun)

\* The poll command left running: cycles follow one another (no --once, no
\* Ctrl+C), documents keep arriving, the sink answers or a write is refused,
\* and the clock reaches every retry time.  The retry limit is
\* DrainRetryLimit, so that every retry time lies within RetryHorizon.
InitDrain == Empty /\ cfg_max_retries = DrainRetryLimit /\ overlap = FALSE

NextDrain ==
    \/ \E items \in FetchLists : poll_cycle_v1(items)
    \/ \E documents \in FetchListsV3 : poll_cycle_v3(documents)
    \/ process_queue_v1
    \/ process_queue_v3
    \/ process_queue_entry
    \/ \E outcome \in SinkOutcomes : FinishDelivery("poll", outcome)
    \/ process_document_raises
    \/ \E t \in RetryDeadlines : Tick(t)

SpecDrain ==
    /\ InitDrain /\ [][NextDrain]_vars
    /\ WF_vars(NextDrain)
    /\ WF_vars(\E t \in RetryDeadlines : Tick(t))

\* Ingestion of envelopes that carry a content, on each path: the webhook,
\* the manual poll, a cycle of either poll command; each stored document is
\* then rendered and delivered by the poller or by a manual retry.
OrderLines ==
    UNION {[1..n -> {Obj([PRODUCT |-> Str("111"), ORDEREDQUANTITY |-> q]) :
                        q \in {Num(5), Num(7)}}] : n \in 0..MaxPositions}
IngestItems ==
    {[documentId |-> 1, docflowId |-> 1]}
    \cup {[documentId |-> 1, docflowId |-> 1,
           content |-> b64encode(json_text(Obj([ORDER |->
                          Obj([NUMBER |-> Str("123"),
                               HEAD |-> Obj([SUPPLIER |-> Str("4870000000001"),
                                             POSITION |-> Arr(l)])])])))] :
            l \in OrderLines}
IngestLists == {<<>>} \cup {<<raw>> : raw \in IngestItems}
\* what the connector of edi/poll_docrobot.py returns for an envelope: the
\* normalized document with the flow id
DocumentV3(raw) ==
    [normalize_document(raw, "ORDER") EXCEPT !.raw = EmptyContent]
        @@ [docflowId |-> raw.docflowId]

InitIngest == Empty /\ cfg_max_retries = ONEC_MAX_RETRIES /\ overlap = FALSE

NextIngest ==
    \/ \E body \in IngestItems : api_webhook(body)
    \/ \E items \in IngestLists : api_poll_now(items)
    \/ \E items \in IngestLists : poll_cycle_v1(items)
    \/ \E raw \in IngestItems : poll_cycle_v3(<<DocumentV3(raw)>>)
    \/ process_queue_v1
    \/ process_queue_v3
    \/ process_queue_entry
    \/ \E pk \in 1..MaxPk : api_retry(pk)
    \/ \E w \in Workers : FinishDelivery(w, 200)

SpecIngest == InitIngest /\ [][NextIngest]_vars

\* Deliveries of NumRenderDocs stored documents not yet rendered, by the
\* poller and by manual retries, with the Telegram bot configured, under
\* any retry limit.
InitNotify ==
    /\ docs = {NewDocument(pk, pk, NoId, "ORDER", MinimalDocument, 0) : pk \in 1..NumRenderDocs}
    /\ queue = {NewEntry(pk) : pk \in 1..NumRenderDocs}
    /\ doc_seq = NumRenderDocs
    /\ now = 0
    /\ poll_pc = "sleep" /\ batch = <<>>
    /\ flight = [w \in Workers |-> {}]
    /\ delivered = [pk \in 1..NumRenderDocs |-> 0]
    /\ failures = [pk \in 1..NumRenderDocs |-> 0]
    /\ cfg_max_retries \in 1..MaxRetryLimit /\ overlap = FALSE
    /\ thread = ThreadIdle("none")
    /\ templates = {}
    /\ client = NewClient
    /\ fetch = NewFetch
    /\ once = FALSE
    /\ telegram = NewNotifier(TRUE)
    /\ last = Event("init")

NextNotify ==
    \/ poll_cycle_v1(<<>>)
    \/ process_queue_v1
    \/ process_queue_entry
    \/ \E pk \in 1..NumRenderDocs : api_retry(pk)
    \/ \E w \in Workers, outcome \in SinkOutcomes : FinishDelivery(w, outcome)
    \/ \E t \in Deadlines : Tick(t)

SpecNotify == InitNotify /\ [][NextNotify]_vars

TypeOK ==
    /\ \A d \in docs : d.pk \in 1..doc_seq /\ d.docrobot_id \in Nat \ {NoId}
    /\ \A e \in queue : e.status \in STATUSES /\ e.attempts \in Nat
    /\ doc_seq \in Nat
    /\ now \in 0..MaxTime
    /\ cfg_max_retries \in 1..MaxRetryLimit
    /\ overlap \in BOOLEAN
    /\ once \in BOOLEAN
    /\ telegram.configured \in BOOLEAN
    /\ poll_pc \in {"sleep", "v1_fetched", "v3_fetched", "queue", "exited"}
    /\ thread.stage \in {"idle", "loop", "create", "entry"}

\* ================================================================ claims
RowsOf(Q, pk) == {e \in Q : e.document = pk}

AnyPoll(items) == poll_cycle_v1(items) \/ api_poll_now(items)

WebhookId(body) == normalize_document(body, "ORDER").docrobotId

\* A delivery attempt on the entry of document pk has just failed.
AttemptFailed(pk) == failures'[pk] = failures[pk] + 1

\* C1: whatever sequence of poll cycles, manual retries, manual sends,
\* webhook ingestions and cleanup runs has happened, the sink has answered
\* 2xx at most once for each upstream document id.
C1_AtMostOneDeliveryPerDocument == \A i \in Ids : delivered[i] <= 1

\* C2: after an ingestion (a poll cycle of either command, the manual poll,
\* a webhook) has handled an item with a given externalId, the store holds
\* exactly one document with that id and exactly one queue entry for it.
OneDocumentOneEntry(D, Q, id) ==
    /\ Cardinality({d \in D : d.docrobot_id = id}) = 1
    /\ \A d \in D : d.docrobot_id = id => Cardinality(RowsOf(Q, d.pk)) = 1

C2_IngestionStoresExactlyOnce ==
    [][ /\ \A items \in FetchLists : AnyPoll(items) =>
              \A id \in OfferedIds(items) : OneDocumentOneEntry(docs', queue', id)
        /\ \A documents \in FetchListsV3 : poll_cycle_v3(documents) =>
              \A id \in OfferedIdsV3(documents) : OneDocumentOneEntry(docs', queue', id)
        /\ \A body \in WebhookBodies : api_webhook(body) /\ WebhookId(body) # NoId =>
              OneDocumentOneEntry(docs', queue', WebhookId(body)) ]_vars

\* C3: an ingestion that is offered an externalId the store already holds
\* leaves that document's row and its queue entry exactly as they were, and
\* adds no second row for the id.
Untouched(ids) ==
    \A d \in docs : d.docrobot_id \in ids =>
        /\ {x \in docs' : x.docrobot_id = d.docrobot_id} = {d}
        /\ RowsOf(queue', d.pk) = RowsOf(queue, d.pk)

C3_SeenIdLeavesRowsUntouched ==
    [][ /\ \A items \in FetchLists : AnyPoll(items) => Untouched(OfferedIds(items))
        /\ \A documents \in FetchListsV3 :
              poll_cycle_v3(documents) => Untouched(OfferedIdsV3(documents))
        /\ \A body \in WebhookBodies : api_webhook(body) => Untouched({WebhookId(body)})
      ]_vars

\* a webhook has offered an id whose document is stored, rendered and has a
\* delivery history
C3_Witness ==
    /\ last.op = "api_webhook" /\ last.seen # {}
    /\ \E d \in docs : d.docrobot_id \in last.seen /\ d.xml_content # ""
                       /\ \E e \in RowsOf(queue, d.pk) : e.attempts > 0

\* C4: once an entry is Sent, no step changes its status or puts its
\* document in flight to the sink again.
C4_SentIsTerminal ==
    [][ \A e \in queue : e.status = STATUS_SENT =>
          /\ \A x \in RowsOf(queue', e.document) : x.status = STATUS_SENT
          /\ \A w \in Workers : \A f \in flight'[w] : f.document # e.document ]_vars

\* C5: the attempt that brings an entry's failures to max_retries leaves it
\* Failed, and an entry that has failed max_retries times is never in the
\* batch of a poll cycle nor sent by one.
C5_FailedAtLimitNeverSelected ==
    /\ [][ \A pk \in 1..MaxPk :
             AttemptFailed(pk) /\ failures'[pk] = cfg_max_retries =>
                \A x \in RowsOf(queue', pk) : x.status = STATUS_FAILED ]_vars
    /\ [](\A b \in Range(batch) \cup flight["poll"] :
             failures[b.document] < cfg_max_retries)

\* with the default limit, a delivery phase has evaluated its queryset while
\* an entry that failed exactly that many times was stored, and took nothing
C5_Witness ==
    /\ cfg_max_retries = ONEC_MAX_RETRIES
    /\ last.op \in {"process_queue_v1", "process_queue_v3"} /\ batch = <<>>
    /\ \E e \in queue : e.status = STATUS_FAILED /\ failures[e.document] = ONEC_MAX_RETRIES

\* C6: every failed delivery attempt (rendering error, transport error,
\* non-2xx answer) adds exactly one to attempts, and leaves the entry Failed
\* when the new count reaches max_retries, Error with next_retry set otherwise.
C6_FailureCountsOnceAndClassifies ==
    [][ \A pk \in 1..MaxPk : AttemptFailed(pk) =>
          /\ RowsOf(queue', pk) # {}
          /\ \A before \in RowsOf(queue, pk), after \in RowsOf(queue', pk) :
               /\ after.attempts = before.attempts + 1
               /\ IF after.attempts >= cfg_max_retries
                  THEN after.status = STATUS_FAILED
                  ELSE after.status = STATUS_ERROR /\ after.next_retry # NULL
                       /\ after.next_retry > now' ]_vars

\* a rendering error was the failure that exhausted the default limit
C6_Witness ==
    /\ cfg_max_retries = ONEC_MAX_RETRIES
    /\ \E e \in queue : /\ e.last_error = "xml_build" /\ e.status = STATUS_FAILED
                        /\ e.attempts = ONEC_MAX_RETRIES

\* C7: after the n-th failure of an entry, n < max_retries, next_retry lies
\* min(60, 2^n) minutes after the time of the failure; the delay is never
\* shorter than the one after the failure before.
ExpectedDelay(n) == IF 2 ^ n < 60 THEN 2 ^ n ELSE 60

C8_AttemptsCountsFailures ==
    /\ [](\A e \in queue : e.attempts = failures[e.document])
    /\ [][ \A e \in queue : \A x \in RowsOf(queue', e.document) :
             x.attempts >= e.attempts ]_vars

\* three failures, then a success: Sent with attempts = 3
C8_Witness ==
    \E e \in queue : /\ e.status = STATUS_SENT /\ e.attempts = 3
                     /\ failures[e.document] = 3 /\ delivered[1] = 1

\* C9: the batch of a delivery phase is the set of due entries (Pending with
\* no next_retry, Error with next_retry <= now), all of them while they are
\* no more than the slice; and the entry a cycle sets to Sending is due.
Due(e, t) ==
    \/ e.status = STATUS_PENDING /\ e.next_retry = NULL
    \/ e.status = STATUS_ERROR /\ e.next_retry # NULL /\ e.next_retry <= t

DueEntries == {e \in queue : Due(e, now)}

C9_CycleClaimsOnlyDueEntries ==
    [][ /\ process_queue_v1 \/ process_queue_v3 =>
              /\ Range(batch') \subseteq DueEntries
              /\ Cardinality(DueEntries) <= QUEUE_SLICE => Range(batch') = DueEntries
        /\ process_queue_entry =>
              \A e \in RowsOf(queue, Head(batch).document) : Due(e, now) ]_vars

\* a delivery phase evaluated its queryset while an Error entry's retry time
\* was still ahead, and left it alone
C9_Witness ==
    /\ last.op \in {"process_queue_v1", "process_queue_v3"} /\ batch = <<>>
    /\ \E e \in queue : e.status = STATUS_ERROR /\ e.next_retry > now

\* C10: whenever a sink call is outstanding, the entry it delivers is stored
\* as Sending.
C10_SendingWhileInFlight ==
    \A w \in Workers : \A f \in flight[w] :
        \A e \in RowsOf(queue, f.document) : e.status = STATUS_SENDING

\* C11: with the poller and a manual retry/send request running at the same
\* time, at most one delivery attempt per entry is in flight at any moment.
C11_OneAttemptInFlightPerEntry ==
    \A pk \in 1..MaxPk :
        Cardinality({w \in Workers : \E f \in flight[w] : f.document = pk}) <= 1

\* C12: the batch a delivery phase takes is the due entries up to the slice
\* of 20, never more; the others are left as they are.
C12_BatchWithinSlice ==
    [][ process_queue_v1 \/ process_queue_v3 =>
          /\ Range(batch') \subseteq DueEntries
          /\ Len(batch') = Min(QUEUE_SLICE, Cardinality(DueEntries))
          /\ queue' = queue ]_vars

\* C13: an entry turns Sent only in the step in which the sink's answer to
\* its delivery is a 2xx status; that step records sent_at, the response and
\* the status and clears last_error; any other answer, and a transport
\* error, leave the entry not Sent.
SentAsAnswered(w, outcome) ==
    \A f \in flight[w] : \A x \in RowsOf(queue', f.document) :
        IF 200 <= outcome /\ outcome <= 299
        THEN /\ x.status = STATUS_SENT /\ x.sent_at = now'
             /\ x.response = "response" /\ x.http_status = outcome
             /\ x.last_error = ""
        ELSE x.status # STATUS_SENT

C13_SentExactlyOn2xx ==
    [][ /\ \A w \in Workers, outcome \in BoundaryOutcomes :
              FinishDelivery(w, outcome) => SentAsAnswered(w, outcome)
        /\ \A x \in queue' :
              x.status = STATUS_SENT /\ x \notin queue =>
                 \E w \in Workers, outcome \in BoundaryOutcomes :
                    /\ 200 <= outcome /\ outcome <= 299
                    /\ FinishDelivery(w, outcome)
                    /\ \E f \in flight[w] : f.document = x.document ]_vars

\* an entry that had failed before is Sent on a 299 answer
C13_Witness ==
    \E e \in queue : /\ e.status = STATUS_SENT /\ e.http_status = 299
                     /\ e.last_error = "" /\ e.sent_at = now
                     /\ e.attempts > 0 /\ failures[e.document] > 0

\* C14: in every state an entry has a sent_at if and only if it is Sent, and
\* a Sent entry has an empty last_error.
C14_SentAtIffSent ==
    \A e \in queue :
        /\ e.sent_at # NULL <=> e.status = STATUS_SENT
        /\ e.status = STATUS_SENT => e.last_error = ""

\* C15: whenever no ingestion is between its two INSERTs, every stored
\* document has exactly one delivery entry - also after an ingestion that
\* failed or was cut short.
C15_EveryDocumentHasOneEntry ==
    thread.stage # "entry" =>
        \A d \in docs : Cardinality(RowsOf(queue, d.pk)) = 1

\* C16: when the id a thread is about to insert has been stored by another
\* path since the thread looked, the thread's insert adds no second row, no
\* error is reported and the thread goes on with the rest of its batch.
C16_LosingInsertIsBenign ==
    [][ poll_now_create_document =>
          /\ \A id \in Ids : Cardinality({d \in docs' : d.docrobot_id = id}) <= 1
          /\ ExistsDocrobotId(docs, Get(Head(thread.items), "docrobotId")) =>
                /\ docs' = docs
                /\ thread'.log # "error"
                /\ thread'.stage = "loop" /\ thread'.items = Tail(thread.items) ]_vars


\* A delivery attempt of document pk reaches the sink call in this step:
\* worker w hands doc.xml_content, as the step leaves it, to the sink.
Sends(w, pk) ==
    /\ flight[w] = {} /\ flight'[w] # {}
    /\ \E e \in flight'[w] : e.document = pk

\* C17: a document is rendered at most once.  A delivery attempt for an
\* entry the sink has answered before finds a rendering cached on the
\* document and sends it as it is: the attempt renders nothing and leaves
\* the document row alone, whatever has happened to the templates since.
C17_LaterAttemptsSendTheCachedRendering ==
    [][ \A w \in Workers, pk \in 1..NumRenderDocs :
          Sends(w, pk) /\ EntryOf(pk).http_status # NULL =>
             /\ DocByPk(pk).xml_content # ""
             /\ docs' = docs ]_vars

\* What build_xml is to return for document d in the present state.
TemplateOf(d) == CHOOSE tpl \in templates : tpl.doc_type = d.doc_type
UsesTemplate(d) == \E tpl \in templates : tpl.doc_type = d.doc_type /\ tpl.is_active
ExpectedXml(d) ==
    IF UsesTemplate(d) THEN render(TemplateOf(d), d.raw_json)
    ELSE _DEFAULT_BUILDERS(d.doc_type, d.raw_json, now)

\* the rendering of document d is stored in this step
Renders(d) ==
    /\ d.xml_content = ""
    /\ \E d2 \in docs' : d2.pk = d.pk /\ d2.xml_content # ""

\* C18: a rendering is made with the active template of the document's doc
\* type when there is one and with the default encoder otherwise (no
\* template, or an inactive one); the default encoder of each of the five
\* doc types gives a non-empty output for the minimal document.
C18_TemplateElseDefaultEncoder ==
    /\ [](\A doc_type \in DOC_TYPES :
             /\ _DEFAULT_BUILDERS(doc_type, Content(MinimalDocument), now) # ""
             /\ build_xml(doc_type, Content(MinimalDocument),
                          {tpl \in templates : ~tpl.is_active}, now)
                  = _DEFAULT_BUILDERS(doc_type, Content(MinimalDocument), now))
    /\ [][ /\ \A d \in docs : Renders(d) =>
                 \E d2 \in docs' : d2.pk = d.pk /\ d2.xml_content = ExpectedXml(d)
           /\ \A d \in docs :
                 last'.op = "export_xml_bundle" /\ last' # last /\ last'.pk = d.pk
                 /\ d.xml_content = "" => last'.xml_bytes = ExpectedXml(d) ]_vars

\* a minimal document rendered by the default encoder while its doc type has
\* an inactive template, and a download rendered with an active template
C18_Witness ==
    /\ \E d \in docs :
          /\ d.raw_json = Content(MinimalDocument)
          /\ \E tpl \in templates : tpl.doc_type = d.doc_type /\ ~tpl.is_active
          /\ d.xml_content # ""
          /\ \E t \in {0, MINUTES_PER_DAY + 1} :
                d.xml_content = _DEFAULT_BUILDERS(d.doc_type, d.raw_json, t)
    /\ now > 0

\* C19: rendering is deterministic.  Two downloads of a document that has
\* no stored rendering, with nothing but time passing between them (the
\* same document, the same templates), give the same XML.
C19_SameInputsSameRendering ==
    [][ /\ last.op = "export_xml_bundle" /\ last'.op = "export_xml_bundle"
        /\ last'.pk = last.pk
        => last'.xml_bytes = last.xml_bytes ]_vars


\* C20: a 401 to a request makes the client refresh its token once and
\* repeat the request once; when the repeated request is answered 401 as
\* well, the call ends there and raises that 401: no further token is
\* fetched and the request is not made again.
C20_SecondUnauthorizedPropagates ==
    [][ /\ client.pc = "reget"
        /\ client'.gets = client.gets + 1 /\ client'.status_code = 401
        => client'.pc = "raised" /\ client'.last_exc = 401 ]_vars

\* C21: only network-level failures of an upstream request are retried: a
\* response that carries an HTTP error status does not start another pass
\* of the loop of _get.
IsHttpError(answer) == answer \in UpstreamAnswers \ {200, TRANSPORT_ERROR}

C21_HttpErrorStatusIsNotRetried ==
    [][ /\ client.pc \in {"get", "reget"}
        /\ client'.gets = client.gets + 1
        /\ IsHttpError(client'.status_code)
        => client'.pc # "headers" ]_vars

\* C22: _fetch_type never stops paging while a further non-empty page
\* exists and the reported total has not been reached.
Listed(f) == TotalOf(SubSeq(f.server.pages, 1, f.page))
FurtherPage(f) == f.page < Len(f.server.pages)
TotalReached(f) == "total" \in DOMAIN f.data /\ Listed(f) >= f.data.total

C22_PagesUntilEmptyOrTotal ==
    [][ fetch.pc = "item" /\ fetch'.pc = "for"
        => ~FurtherPage(fetch) \/ TotalReached(fetch) ]_vars

\* C23: get_incoming_documents returns every item that was fetched and
\* normalized without error, whatever failed beside it.
C23_ReturnsEveryItemThatSucceeded ==
    fetch.pc = "returned" => Len(fetch.all_docs) = fetch.succeeded

\* C24: normalizing an item whose content is missing or cannot be decoded
\* (not base64, not JSON, JSON that is not an object) never raises: the
\* result has no positions and zero totals.
Normalized == last.op = "normalize_document"
Decodes(raw) ==
    /\ "content" \in DOMAIN raw /\ raw.content.kind = "base64"
    /\ raw.content.text.kind = "json"
    /\ isinstance(raw.content.text.value, "dict")

C24_UndecodableContentGivesEmptyDocument ==
    Normalized /\ ~Decodes(last.raw)
    => /\ ~IsRaised(last.normalized)
       /\ last.normalized.positions = <<>>
       /\ last.normalized.totalAmount = 0
       /\ last.normalized.totalVat = 0
       /\ last.normalized.totalWithVat = 0

\* C25: an item whose content decodes to {DOC_TYPE: {NUMBER, HEAD:
\* {POSITION: [...]}}} normalizes to a document with that number and one
\* line per POSITION element, in the received order, each with its ordered
\* quantity.
BodyOf(raw, doc_type) == raw.content.text.value.v[doc_type]
PositionsOf(body) == body.v.HEAD.v.POSITION.v
KeyedByDocType(raw, doc_type) ==
    /\ Decodes(raw) /\ doc_type \in DOMAIN raw.content.text.value.v
    /\ \A i \in 1..Len(PositionsOf(BodyOf(raw, doc_type))) :
          isinstance(PositionsOf(BodyOf(raw, doc_type))[i], "dict")

C25_NumberAndLinesInReceivedOrder ==
    Normalized /\ KeyedByDocType(last.raw, last.doc_type)
    => LET body == BodyOf(last.raw, last.doc_type)
           received == PositionsOf(body)
           lines == last.normalized.positions
       IN  /\ ~IsRaised(last.normalized)
           /\ last.normalized.number = py_str(body.v.NUMBER)
           /\ Len(lines) = Len(received)
           /\ \A i \in 1..Len(received) :
                 "ORDEREDQUANTITY" \in DOMAIN received[i].v
                 => ToString(lines[i].quantity)
                    = ToString(received[i].v.ORDEREDQUANTITY.v)

\* Scenario A, and a document of two lines whose quantities differ
C25_Witness ==
    /\ Normalized /\ KeyedByDocType(last.raw, last.doc_type)
    /\ ~IsRaised(last.normalized)
    /\ last.normalized.number = "123"
    /\ Len(last.normalized.positions) = 2
    /\ ToString(last.normalized.positions[1].quantity) = "5"
    /\ ToString(last.normalized.positions[2].quantity) = "7"

\* C26: every money and quantity field of a normalized document and of its
\* lines is numeric: a value that is not a number, or is absent, comes out
\* as 0.
Coerced(d, key) ==
    IF key \in DOMAIN d.v /\ isinstance(d.v[key], "int") THEN d.v[key].v ELSE 0

C26_NonNumericValuesCoercedToZero ==
    Normalized /\ KeyedByDocType(last.raw, last.doc_type)
    => LET body == BodyOf(last.raw, last.doc_type)
           received == PositionsOf(body)
           lines == last.normalized.positions
       IN  /\ ~IsRaised(last.normalized)
           /\ ToString(last.normalized.totalAmount) = ToString(Coerced(body, "AMOUNT"))
           /\ \A i \in 1..Len(received) :
                 ToString(lines[i].quantity)
                 = ToString(Coerced(received[i], "ORDEREDQUANTITY"))

\* C27: an exception while the poller processes one delivery entry (the
\* sink call failing, or an exception leaving process_document) is caught:
\* the entries of the cycle still to be processed stay to be processed, and
\* after the last one the command is where a cycle's end leaves it, about to
\* sleep and start the next cycle.
EntryRaised ==
    /\ flight["poll"] # {} /\ flight'["poll"] = {}
    /\ failures' # failures \/ last'.op = "process_document_raises"

InCycle == poll_pc \in {"v1_fetched", "v3_fetched", "queue"}

C29_EveryFailureNotifies ==
    [][ \A pk \in DOMAIN failures :
          failures'[pk] # failures[pk]
          => \A e \in queue' :
                e.document = pk
                => /\ [kind |-> "error", document |-> pk, error |-> e.last_error]
                         \in telegram'.posted
                   /\ e.status = STATUS_FAILED
                      => [kind |-> "failed", document |-> pk, attempts |-> e.attempts]
                            \in telegram'.posted ]_vars

\* C30: a fetched document counts as already seen when its docrobotId or
\* its docflowId is that of a stored document, and a document with only one
\* of the two populated is ingested all the same: after a poll cycle every
\* offered document that carries an identifier has a stored row matching it
\* on a populated identifier, and no identifier is stored twice.
StoredFor(D, d) ==
    \E x \in D : \/ d.docrobotId # NoId /\ x.docrobot_id = d.docrobotId
                 \/ d.docflowId # NoId /\ x.docflow_id = d.docflowId

C30_DedupOnEitherIdentifier ==
    [][ \A documents \in FetchListsV3 :
          poll_cycle_v3(documents)
          => /\ \A k \in 1..Len(documents) :
                   documents[k].docrobotId # NoId \/ documents[k].docflowId # NoId
                   => StoredFor(docs', documents[k])
             /\ \A x, y \in docs' :
                   x # y => /\ x.docrobot_id # y.docrobot_id
                            /\ x.docflow_id # NoId => x.docflow_id # y.docflow_id ]_vars

\* C31: a fetch that fails (authentication refused, exchange unreachable)
\* changes nothing in the tables and is followed by the delivery phase of the
\* same cycle, which claims the entries that are due; without --once the
\* command is back at the sleep before the next cycle afterwards.
FetchFailed == last.op = "fetch_failed" /\ poll_pc \in {"v1_fetched", "v3_fetched"}

C31_FetchFailureKeepsDeliveryPhase ==
    /\ [][ poll_pc = "sleep" /\ last'.op = "fetch_failed"
           => /\ poll_pc' \in {"v1_fetched", "v3_fetched"}
              /\ docs' = docs /\ queue' = queue ]_vars
    /\ [][ FetchFailed /\ poll_pc' # poll_pc /\ last'.op # "poll_error"
           => /\ batch' = (IF poll_pc = "v1_fetched" THEN QueueEntriesV1(queue, now)
                                                     ELSE QueueEntriesV3(queue, now))
              /\ Range(batch') = {e \in queue : Due(e, now)} ]_vars
    /\ (~once => [](FetchFailed => <>(poll_pc = "sleep")))

C31_Witness ==
    /\ FetchFailed
    /\ \E e \in queue : e.status = STATUS_PENDING
    /\ \E e \in queue : e.status = STATUS_ERROR /\ Due(e, now)

\* C32: after a poll cycle of either command, every document the connector
\* returned with a non-empty id that was not stored before the cycle is a
\* stored document with a Pending delivery entry the delivery phase of that
\* cycle would select.
QueuedBy(D, Q, id, t) ==
    \E d \in D : /\ d.docrobot_id = id
                 /\ \E e \in Q : e.document = d.pk /\ e.status = STATUS_PENDING /\ Due(e, t)

C32_PollCycleQueuesEveryNewDocument ==
    [][ /\ \A items \in FetchLists :
              poll_cycle_v1(items)
              => \A id \in (OfferedIds(items) \ {NoId}) \ StoredIds(docs) :
                    QueuedBy(docs', queue', id, now')
        /\ \A documents \in FetchListsV3 :
              poll_cycle_v3(documents)
              => \A id \in OfferedIdsV3(documents) \ StoredIds(docs) :
                    QueuedBy(docs', queue', id, now') ]_vars

\* C33: in every reachable state an entry whose status is Pending has no
\* retry time, so the selection of the delivery phase takes it at once.
C33_PendingHasNoRetryTime ==
    \A e \in queue : e.status = STATUS_PENDING => e.next_retry = NULL /\ Due(e, now)

\* a manual retry has put an entry that failed before back to Pending
C33_Witness ==
    /\ last.op = "api_retry"
    /\ \E e \in queue : e.status = STATUS_PENDING /\ e.attempts > 0 /\ e.last_error # ""

\* C34: in every reachable state an Error entry has failed at least once
\* and fewer times than the retry limit and carries a retry time, and a
\* Failed entry has failed at least as often as the retry limit.
C34_ErrorBelowLimitFailedAtLimit ==
    \A e \in queue :
        /\ e.status = STATUS_ERROR
           => 0 < e.attempts /\ e.attempts < cfg_max_retries /\ e.next_retry # NULL
        /\ e.status = STATUS_FAILED => e.attempts >= cfg_max_retries

\* an entry in its last Error round: one more failure reaches the limit
C34_Witness ==
    \E e \in queue : /\ e.status = STATUS_ERROR
                     /\ e.attempts > 1 /\ e.attempts = cfg_max_retries - 1
                     /\ e.next_retry > now

\* C35: with the poll command left running and the clock advancing, every
\* delivery entry is Sent or Failed at some later time: none stays Pending,
\* Sending or Error for ever.
Settled(pk) == HasEntry(pk) /\ EntryOf(pk).status \in {STATUS_SENT, STATUS_FAILED}

C35_EveryEntryEventuallySettles ==
    \A pk \in 1..MaxPk : HasEntry(pk) ~> Settled(pk)

\* C36: an entry the delivery phase has claimed leaves its attempt as Sent,
\* Error or Failed, whether process_document returns or raises, so that
\* none is still Sending when the phase is over.  (Ctrl+C ends the command,
\* not the phase.)
C36_ClaimedEntryLeavesSending ==
    [][ flight["poll"] # {} /\ flight'["poll"] = {} /\ last'.op # "KeyboardInterrupt"
        => \A e \in flight["poll"] :
              \A x \in queue' :
                 x.document = e.document
                 => x.status \in {STATUS_SENT, STATUS_ERROR, STATUS_FAILED} ]_vars

\* C37: a document the cleanup job deletes has a delivery entry that is
\* Sent or Failed; a document whose entry is Pending, Sending or Error is
\* still stored after the job.
C37_CleanupDeletesOnlySettled ==
    [][ \A days \in 1..MaxCleanupDays :
          cleanup_old(days)
          => \A d \in docs \ docs' :
                \E e \in queue : /\ e.document = d.pk
                                 /\ e.status \in {STATUS_SENT, STATUS_FAILED} ]_vars

\* C38: api_retry on an Error or Failed entry stores it as Pending with no
\* retry time and the attempts it had, and makes the delivery attempt in the
\* same request (the sink is called, or the rendering fails and is marked);
\* when the attempt of an entry that had reached the retry limit fails, the
\* entry is Failed with attempts one higher, and when the sink answers 2xx
\* the entry is Sent.
Requeued(e) == [e EXCEPT !.status = STATUS_PENDING, !.next_retry = NULL]

C38_ManualRetryRequeuesAndDelivers ==
    /\ [][ \A pk \in 1..MaxPk :
             api_retry(pk) /\ EntryOf(pk).status \in {STATUS_ERROR, STATUS_FAILED}
             => LET e == EntryOf(pk)
                IN  \/ /\ flight'["web"] = {Requeued(e)}
                       /\ RowsOf(queue', pk) = {Requeued(e)}
                    \/ /\ flight'["web"] = {}
                       /\ failures'[pk] = failures[pk] + 1
                       /\ RowsOf(queue', pk)
                            = {mark_error(Requeued(e), "xml_build", NULL, cfg_max_retries, now)} ]_vars
    /\ [][ flight["web"] # {} /\ flight'["web"] = {}
           => \A e \in flight["web"] :
                 \A x \in RowsOf(queue', e.document) :
                    /\ delivered' # delivered => x.status = STATUS_SENT
                    /\ failures' # failures /\ e.attempts >= cfg_max_retries
                       => x.status = STATUS_FAILED /\ x.attempts = e.attempts + 1 ]_vars

\* a Failed entry was retried by hand and failed again
C38_Witness ==
    /\ last.op = "api_retry" /\ flight["web"] = {}
    /\ \E e \in queue : e.status = STATUS_FAILED /\ e.attempts > cfg_max_retries
                        /\ e.next_retry = NULL

\* C39: whichever path stores a document - the webhook, the manual poll, a
\* poll cycle - the raw_json of the stored row is the normalized document
\* of the envelope received (its number, parties and lines), which is what
\* the rendering for the delivery reads.
SameJson(a, b) == ToString(a) = ToString(b)

StoredNormalized(D, normalized) ==
    \A d \in D : \E k \in 1..Len(normalized) :
        /\ d.docrobot_id = normalized[k].docrobotId
        /\ SameJson(d.raw_json, Content(normalized[k]))

C39_StoredRawJsonIsNormalized ==
    [][ /\ \A body \in IngestItems :
              api_webhook(body)
              => StoredNormalized(docs' \ docs, <<normalize_document(body, "ORDER")>>)
        /\ \A items \in IngestLists :
              api_poll_now(items) \/ poll_cycle_v1(items)
              => StoredNormalized(docs' \ docs, get_incoming_documents(items))
        /\ \A raw \in IngestItems :
              poll_cycle_v3(<<DocumentV3(raw)>>)
              => StoredNormalized(docs' \ docs, <<DocumentV3(raw)>>) ]_vars

====
